---- MODULE Spec2Model ----
(***************************************************************************)
(* A model of smart-youtube-bot: the quota manager (QuotaManager), the     *)
(* rate limiter (RateLimiter) and the YouTube service methods that gate    *)
(* and charge every transport request (YouTubeService).                    *)
(*                                                                         *)
(* Time is the wall clock in milliseconds (Date.now()).  The clock origin  *)
(* is moved so that the values fit the checker's integers; midnights are   *)
(* the multiples of DayMs.                                                 *)
(***************************************************************************)
EXTENDS Integers, Sequences, FiniteSets, TLC

----------------------------------------------------------------------------
(* Program constants *)

DAILY_QUOTA_LIMIT == 10000
SAFE_QUOTA_LIMIT == 9000
COST_SEARCH == 100
COST_VIDEO_LIST == 1
COST_CHAT_LIST == 5
COST_CHAT_INSERT == 50
QUOTA_HISTORY_CAP == 100
HourMs == 3600000
maxResponsesPerHour == 30
globalCooldown == 8000
userCooldown == 30000
DayMs == 24 * HourMs

(* Bounds of the model *)

\* API calls made in one run (each may append a history entry)
MaxCalls == 4
\* clock advances in one run
MaxTicks == 2
\* transport requests of one kind that are in flight together
MaxInflight == 1
\* clock advances in one rate limiter run
MaxThrottleTicks == 3
\* responses recorded in one rate limiter run
MaxReplies == 2
\* responses already recorded this hour in the loaded initial states
PreloadedReplies == 29
\* successful searches already charged today in the loaded initial states
PreloadedSearches == 89
\* failed calls already in the history in the loaded initial states
PreloadedFailures == 10

\* the clock at the start of a run: 23:00 of the second day
StartOfRun == DayMs + 23 * HourMs

\* the operation types the callers pass (part_000 lines 402-525)
Ops == {"SEARCH", "VIDEO_LIST", "CHAT_LIST", "CHAT_INSERT"}

\* the clock advances the quota runs take: an hour (the reset timer's
\* period) and a whole day (a check delayed past a second midnight)
QuotaTicks == {HourMs, DayMs}

VARIABLES
    now,              \* Date.now()
    ticks,            \* clock advances so far (bounded by MaxTicks)
    dailyQuotaUsed,   \* QuotaManager.dailyQuotaUsed
    quotaResetTime,   \* QuotaManager.quotaResetTime
    quotaHistory,     \* QuotaManager.quotaHistory
    admitted,         \* the operation the caller was just admitted for, or "none"
    pending,          \* transport requests in flight, per operation type
    oauthTokens,      \* config.OAUTH_TOKENS is set (canSendMessages)
    lastGlobalResponse, \* RateLimiter.lastGlobalResponse
    userResponses,    \* RateLimiter.userResponses (a Map: userId -> time)
    hourlyResponses,  \* RateLimiter.hourlyResponses
    replyLog,         \* every recordResponse call so far: <<[time, user]>>
    lastAllowed,      \* the latest canRespond that returned allowed: true
    lastCall,         \* the last call made and what it returned
    currentGame,      \* context.currentGame ("" for null)
    gameState,        \* context.gameState
    chatMood,         \* context.chatMood
    messageHistory,   \* context.messageHistory
    recentEvents,     \* context.recentEvents
    inserted,         \* how many entries were ever pushed to the two lists
    started,          \* start() has been called
    isRunning,        \* state.isRunning
    isMonitoring,     \* state.isMonitoring
    videoId,          \* state.videoId (0 for null)
    liveChatId,       \* state.liveChatId (0 for null)
    nextPageToken,    \* state.nextPageToken (0 for null)
    consecutiveErrors, \* state.consecutiveErrors
    intervals,        \* which of this.intervals are armed
    awaiting,         \* who awaits the stream probe and the chat lookup
    pollTimers,       \* setTimeout(() => this.pollMessages(), delay): delays
    sendTimers,       \* setTimeout of sendResponse: the replies waiting
    sending,          \* replies whose liveChatMessages.insert is in flight
    restartTimers,    \* setTimeout of restart() armed
    shutdown,         \* the runs of gracefulShutdown and where they stand
    exited,           \* process.exit was called
    spent             \* polls issued, messages received, probes, signals

quotaVars == <<dailyQuotaUsed, quotaResetTime, quotaHistory>>
serviceVars == <<pending, oauthTokens>>
limiterVars == <<lastGlobalResponse, userResponses, hourlyResponses,
                 replyLog, lastAllowed>>
contextVars == <<currentGame, gameState, chatMood, messageHistory,
                 recentEvents, inserted>>
botVars == <<started, isRunning, isMonitoring, videoId, liveChatId,
             nextPageToken, consecutiveErrors, intervals, awaiting,
             pollTimers, sendTimers, sending, restartTimers, shutdown,
             exited, spent>>
vars == <<now, ticks, dailyQuotaUsed, quotaResetTime, quotaHistory, admitted,
          pending, oauthTokens, lastGlobalResponse, userResponses,
          hourlyResponses, replyLog, lastAllowed, lastCall,
          currentGame, gameState, chatMood, messageHistory, recentEvents,
          inserted, started, isRunning, isMonitoring, videoId, liveChatId,
          nextPageToken, consecutiveErrors, intervals, awaiting, pollTimers,
          sendTimers, sending, restartTimers, shutdown, exited, spent>>

----------------------------------------------------------------------------
(* QuotaManager *)

\* constants.YOUTUBE_API.COSTS[operationType.toUpperCase()] || 1
Cost(operationType) ==
    CASE operationType = "SEARCH" -> COST_SEARCH
      [] operationType = "VIDEO_LIST" -> COST_VIDEO_LIST
      [] operationType = "CHAT_LIST" -> COST_CHAT_LIST
      [] operationType = "CHAT_INSERT" -> COST_CHAT_INSERT
      [] OTHER -> 1

\* array.slice(-n)
SliceLast(s, n) ==
    IF Len(s) > n THEN SubSeq(s, Len(s) - n + 1, Len(s)) ELSE s

\* getNextQuotaReset advancing the old boundary by one day instead of
\* taking the midnight after the current time
getNextQuotaReset_fromOld == quotaResetTime + DayMs

\* getNextQuotaReset(): the local midnight that follows the current time
getNextQuotaReset == ((now \div DayMs) + 1) * DayMs

\* the test of checkQuotaReset
ResetDue == now >= quotaResetTime

\* checkQuotaReset(): what it does to the ledger
checkQuotaReset ==
    IF ResetDue
    THEN /\ dailyQuotaUsed' = 0
         /\ quotaResetTime' = getNextQuotaReset
         /\ quotaHistory' = <<>>
    ELSE UNCHANGED quotaVars

\* the usage canMakeApiCall reads after its call of checkQuotaReset
UsedAfterCheck == IF ResetDue THEN 0 ELSE dailyQuotaUsed

\* the blocking test comparing the current usage, not the projected one
ExceedsSafeLimit_current(used, operationType) == used > SAFE_QUOTA_LIMIT

\* projectedUsage > SAFE_QUOTA_LIMIT
ExceedsSafeLimit(used, operationType) ==
    used + Cost(operationType) > SAFE_QUOTA_LIMIT

\* the value canMakeApiCall(operationType) returns
canMakeApiCall(operationType) ==
    ~ExceedsSafeLimit(UsedAfterCheck, operationType)

\* a charge made whether or not the call succeeded
Charged_always(used, operationType, success) == used + Cost(operationType)

\* trackApiCall: the usage after the call
Charged(used, operationType, success) ==
    IF success THEN used + Cost(operationType) ELSE used

\* trackApiCall: the history entry pushed
HistoryEntry(operationType, success) ==
    [timestamp |-> now, operation |-> operationType,
     cost |-> IF success THEN Cost(operationType) ELSE 0,
     success |-> success]

\* trackApiCall(operationType, success): no reset check, charge, push, trim
trackApiCall(operationType, success) ==
    /\ dailyQuotaUsed' = Charged(dailyQuotaUsed, operationType, success)
    /\ quotaHistory' = SliceLast(Append(quotaHistory,
                                        HistoryEntry(operationType, success)),
                                 QUOTA_HISTORY_CAP)
    /\ UNCHANGED quotaResetTime

\* what a call leaves in lastCall
Call(fn, arg, ok, reason) ==
    [n |-> lastCall.n + 1, fn |-> fn, arg |-> arg, ok |-> ok,
     reason |-> reason, val |-> 0, at |-> now]

----------------------------------------------------------------------------
(* The quota manager called by one sequential caller *)

\* canMakeApiCall(operationType) called
CanMakeApiCall(operationType) ==
    /\ lastCall.n < MaxCalls
    /\ checkQuotaReset
    /\ lastCall' = Call("canMakeApiCall", operationType,
                        canMakeApiCall(operationType), "")
    /\ admitted' = IF canMakeApiCall(operationType)
                   THEN operationType ELSE "none"
    /\ UNCHANGED <<contextVars, botVars, now, ticks, serviceVars, limiterVars>>

\* trackApiCall(operationType, success) called; the caller reports a
\* success only for the operation it was just admitted for
TrackApiCall(operationType, success) ==
    /\ lastCall.n < MaxCalls
    /\ success => admitted = operationType
    /\ trackApiCall(operationType, success)
    /\ lastCall' = Call("trackApiCall", operationType, success, "")
    /\ admitted' = "none"
    /\ UNCHANGED <<contextVars, botVars, now, ticks, serviceVars, limiterVars>>

\* the hourly timer the constructor arms: () => this.checkQuotaReset()
CheckQuotaResetTimer ==
    /\ lastCall.n < MaxCalls
    /\ checkQuotaReset
    /\ lastCall' = Call("checkQuotaReset", "", ResetDue, "")
    /\ UNCHANGED <<contextVars, botVars, now, ticks, admitted, serviceVars, limiterVars>>

\* the clock advances
QuotaTick(d) ==
    /\ ticks < MaxTicks
    /\ now' = now + d
    /\ ticks' = ticks + 1
    /\ UNCHANGED <<contextVars, botVars, quotaVars, admitted, serviceVars, limiterVars, lastCall>>

\* the rate limiter as its constructor leaves it
LimiterFresh ==
    /\ lastGlobalResponse = 0
    /\ userResponses = <<>>
    /\ hourlyResponses = <<>>
    /\ replyLog = <<>>
    /\ lastAllowed = [at |-> -1, replies |-> 0]

\* initializeContext()
ContextFresh ==
    /\ currentGame = ""
    /\ gameState = "unknown"
    /\ chatMood = "neutral"
    /\ messageHistory = <<>>
    /\ recentEvents = <<>>
    /\ inserted = [messages |-> 0, events |-> 0]

\* initializeState() and the constructor of SmartYouTubeChatBot
BotFresh ==
    /\ started = FALSE
    /\ isRunning = FALSE
    /\ isMonitoring = FALSE
    /\ videoId = 0
    /\ liveChatId = 0
    /\ nextPageToken = 0
    /\ consecutiveErrors = 0
    /\ intervals = [streamCheck |-> FALSE, contextCleanup |-> FALSE]
    /\ awaiting = [probe |-> "none", lookup |-> "none"]
    /\ pollTimers = <<>>
    /\ sendTimers = <<>>
    /\ sending = <<>>
    /\ restartTimers = 0
    /\ shutdown = [runs |-> 0, farewell |-> 0, stopping |-> 0, exitTimers |-> 0]
    /\ exited = FALSE
    /\ spent = [polls |-> 0, messages |-> 0, probes |-> 0, signals |-> 0]

\* nothing has been called yet
NoCall(t) ==
    [n |-> 0, fn |-> "constructor", arg |-> "", ok |-> TRUE,
     reason |-> "", val |-> 0, at |-> t]

\* the ledger after k successful searches and f failed calls today
LoadedHistory(k, f) ==
    SliceLast(
      [i \in 1..(k + f) |->
         [timestamp |-> StartOfRun - (k + f - i + 1) * 1000,
          operation |-> IF i <= k THEN "SEARCH" ELSE "CHAT_LIST",
          cost |-> IF i <= k THEN Cost("SEARCH") ELSE 0,
          success |-> i <= k]],
      QUOTA_HISTORY_CAP)

\* the state after construction, or later the same day after k searches
QuotaInit ==
    /\ now = StartOfRun
    /\ ticks = 0
    /\ quotaResetTime = 2 * DayMs
    /\ \E k \in {0, PreloadedSearches} : \E f \in {0, PreloadedFailures} :
          /\ k = 0 => f = 0
          /\ dailyQuotaUsed = k * Cost("SEARCH")
          /\ quotaHistory = LoadedHistory(k, f)
    /\ admitted = "none"
    /\ pending = [o \in Ops |-> 0]
    /\ oauthTokens = TRUE
    /\ LimiterFresh
    /\ ContextFresh
    /\ BotFresh
    /\ lastCall = NoCall(StartOfRun)

QuotaNext ==
    \/ \E o \in Ops : CanMakeApiCall(o)
    \/ \E o \in Ops : \E s \in BOOLEAN : TrackApiCall(o, s)
    \/ CheckQuotaResetTimer
    \/ \E d \in QuotaTicks : QuotaTick(d)

SpecQuota == QuotaInit /\ [][QuotaNext]_vars

----------------------------------------------------------------------------
(* YouTubeService: every transport request is made by one of four methods, *)
(* each of which asks the quota manager, awaits the request and then       *)
(* records its outcome.  The await splits a method into two steps.         *)

\* a quota gate that lets message sends through unasked
QuotaGate_sendsUngated(operationType) ==
    operationType = "CHAT_INSERT" \/ canMakeApiCall(operationType)

\* if (!this.quotaManager.canMakeApiCall(op)) throw ...: TRUE when it passes
QuotaGate(operationType) == canMakeApiCall(operationType)

\* canSendMessages()
canSendMessages == oauthTokens

\* a method up to its await: the gate(s), then the request is issued
IssueRequest(method, operationType, mayIssue, refusal) ==
    /\ checkQuotaReset
    /\ IF mayIssue
       THEN /\ pending' = [pending EXCEPT ![operationType] = @ + 1]
            /\ lastCall' = Call(method, operationType, TRUE, "issued")
       ELSE /\ UNCHANGED pending
            /\ lastCall' = Call(method, operationType, FALSE, refusal)
    /\ UNCHANGED <<contextVars, botVars, now, ticks, admitted, oauthTokens, limiterVars>>

\* a method after its await: the request resolved or threw
CompleteRequest(method, operationType, success) ==
    /\ trackApiCall(operationType, success)
    /\ pending' = [pending EXCEPT ![operationType] = @ - 1]
    /\ lastCall' = Call("trackApiCall", operationType, success, method)
    /\ UNCHANGED <<contextVars, botVars, now, ticks, admitted, oauthTokens, limiterVars>>

\* checkForLiveStream() up to await youtube.search.list; the monitor probes
\* and then attaches, one after the other (quotaManager.js lines 296-306)
CheckForLiveStream ==
    /\ lastCall.n < MaxCalls
    /\ pending["SEARCH"] < MaxInflight
    /\ pending["VIDEO_LIST"] = 0
    /\ IssueRequest("checkForLiveStream", "SEARCH", QuotaGate("SEARCH"), "quota")

\* checkForLiveStream() from the await on
CheckForLiveStreamDone(success) ==
    /\ pending["SEARCH"] > 0
    /\ CompleteRequest("checkForLiveStream", "SEARCH", success)

\* getLiveChatId() up to await youtube.videos.list; connectToChat calls it
\* once the probe it follows has returned
GetLiveChatId ==
    /\ lastCall.n < MaxCalls
    /\ pending["VIDEO_LIST"] < MaxInflight
    /\ pending["SEARCH"] = 0
    /\ IssueRequest("getLiveChatId", "VIDEO_LIST", QuotaGate("VIDEO_LIST"), "quota")

\* getLiveChatId() from the await on
GetLiveChatIdDone(success) ==
    /\ pending["VIDEO_LIST"] > 0
    /\ CompleteRequest("getLiveChatId", "VIDEO_LIST", success)

\* getChatMessages() up to await youtube.liveChatMessages.list
GetChatMessages ==
    /\ lastCall.n < MaxCalls
    /\ pending["CHAT_LIST"] < MaxInflight
    /\ IssueRequest("getChatMessages", "CHAT_LIST", QuotaGate("CHAT_LIST"), "quota")

\* getChatMessages() from the await on
GetChatMessagesDone(success) ==
    /\ pending["CHAT_LIST"] > 0
    /\ CompleteRequest("getChatMessages", "CHAT_LIST", success)

\* sendMessage() up to await youtube.liveChatMessages.insert
SendMessage ==
    /\ lastCall.n < MaxCalls
    /\ pending["CHAT_INSERT"] < MaxInflight
    /\ IssueRequest("sendMessage", "CHAT_INSERT",
                    QuotaGate("CHAT_INSERT") /\ canSendMessages,
                    IF QuotaGate("CHAT_INSERT") THEN "oauth" ELSE "quota")

\* sendMessage() from the await on
SendMessageDone(success) ==
    /\ pending["CHAT_INSERT"] > 0
    /\ CompleteRequest("sendMessage", "CHAT_INSERT", success)

\* the service methods, by name
ServiceMethods ==
    {"checkForLiveStream", "getLiveChatId", "getChatMessages", "sendMessage"}

ServiceInit ==
    /\ now = StartOfRun
    /\ ticks = 0
    /\ quotaResetTime = 2 * DayMs
    /\ \E k \in {0, PreloadedSearches} :
          /\ dailyQuotaUsed = k * Cost("SEARCH")
          /\ quotaHistory = LoadedHistory(k, 0)
    /\ admitted = "none"
    /\ pending = [o \in Ops |-> 0]
    /\ oauthTokens \in BOOLEAN
    /\ LimiterFresh
    /\ ContextFresh
    /\ BotFresh
    /\ lastCall = NoCall(StartOfRun)

ServiceNext ==
    \/ CheckForLiveStream
    \/ \E s \in BOOLEAN : CheckForLiveStreamDone(s)
    \/ GetLiveChatId
    \/ \E s \in BOOLEAN : GetLiveChatIdDone(s)
    \/ GetChatMessages
    \/ \E s \in BOOLEAN : GetChatMessagesDone(s)
    \/ SendMessage
    \/ \E s \in BOOLEAN : SendMessageDone(s)
    \/ CheckQuotaResetTimer
    \/ \E d \in QuotaTicks : QuotaTick(d)

SpecService == ServiceInit /\ [][ServiceNext]_vars

----------------------------------------------------------------------------
(* RateLimiter, called as handleMessageReceived calls it: canRespond for   *)
(* the author of a message and, when it allows and a response is made,     *)
(* recordResponse in the same synchronous run.                             *)

\* the authors of chat messages
Authors == {"alice", "bob"}

\* the clock at the start of a rate limiter run: 23:59:55
ThrottleStart == StartOfRun + HourMs - 5000

\* the clock advances the rate limiter runs take; 3000 + 5000 is the global
\* cooldown, 30000 the user cooldown, 30000 + 3570000 one hour
ThrottleTicks == {3000, 5000, 30000, 3570000}

\* now - this.lastGlobalResponse < this.globalCooldown
GlobalCooldownActive == now - lastGlobalResponse < globalCooldown

\* the window test by calendar hour instead of by age
InLastHour_calendarHour(time) == time \div HourMs = now \div HourMs

\* time > oneHourAgo, with oneHourAgo = now - 3600000
InLastHour(time) == time > now - HourMs

\* this.hourlyResponses.filter(time => time > oneHourAgo)
FilteredHourly == SelectSeq(hourlyResponses, LAMBDA time : InLastHour(time))

\* the user test that never blocks
UserCooldownActive_never(userId) == FALSE

\* lastUserResponse && now - lastUserResponse < this.userCooldown
UserCooldownActive(userId) ==
    /\ userId \in DOMAIN userResponses
    /\ userResponses[userId] # 0
    /\ now - userResponses[userId] < userCooldown

\* the hourly test letting one response more through
HourlyLimitReached_offByOne == Len(FilteredHourly) > maxResponsesPerHour

\* this.getHourlyResponseCount() >= this.maxResponsesPerHour
HourlyLimitReached == Len(FilteredHourly) >= maxResponsesPerHour

\* the reason canRespond(userId) returns, or "" when it allows
canRespond(userId) ==
    IF GlobalCooldownActive THEN "global_cooldown"
    ELSE IF HourlyLimitReached THEN "hourly_limit"
    ELSE IF UserCooldownActive(userId) THEN "user_cooldown"
    ELSE ""

\* a recordResponse that leaves lastGlobalResponse alone
recordResponse_noGlobal(userId) ==
    /\ UNCHANGED lastGlobalResponse
    /\ userResponses' = [u \in DOMAIN userResponses \cup {userId} |->
                           IF u = userId THEN now ELSE userResponses[u]]
    /\ hourlyResponses' = Append(hourlyResponses, now)

\* recordResponse(userId): what it does to the limiter
recordResponse(userId) ==
    /\ lastGlobalResponse' = now
    /\ userResponses' = [u \in DOMAIN userResponses \cup {userId} |->
                           IF u = userId THEN now ELSE userResponses[u]]
    /\ hourlyResponses' = Append(hourlyResponses, now)

\* what a rate limiter call leaves in lastCall
LimiterCall(fn, arg, ok, reason, val) ==
    [n |-> 0, fn |-> fn, arg |-> arg, ok |-> ok, reason |-> reason,
     val |-> val, at |-> now]

\* canRespond(userId) called; getHourlyResponseCount prunes the list when
\* the global test lets the call reach it
CanRespond(userId) ==
    /\ hourlyResponses' = IF GlobalCooldownActive
                          THEN hourlyResponses ELSE FilteredHourly
    /\ lastCall' = LimiterCall("canRespond", userId, canRespond(userId) = "",
                               canRespond(userId), 0)
    /\ lastAllowed' = IF canRespond(userId) = ""
                      THEN [at |-> now, replies |-> Len(replyLog)]
                      ELSE lastAllowed
    /\ UNCHANGED <<contextVars, botVars, now, ticks, quotaVars, admitted, serviceVars,
                   lastGlobalResponse, userResponses, replyLog>>

\* recordResponse(userId) called, right after canRespond(userId) allowed
RecordResponse(userId) ==
    /\ lastCall.fn = "canRespond"
    /\ lastCall.arg = userId
    /\ lastCall.ok
    /\ lastCall.at = now
    /\ Len(SelectSeq(replyLog, LAMBDA r : r.time >= ThrottleStart)) < MaxReplies
    /\ recordResponse(userId)
    /\ replyLog' = Append(replyLog, [time |-> now, user |-> userId])
    /\ lastCall' = LimiterCall("recordResponse", userId, TRUE, "", 0)
    /\ UNCHANGED <<contextVars, botVars, now, ticks, quotaVars, admitted, serviceVars, lastAllowed>>

\* getStats() called (status report, !stats, !debug)
GetStats ==
    /\ hourlyResponses' = FilteredHourly
    /\ lastCall' = LimiterCall("getStats", "", TRUE, "", Len(FilteredHourly))
    /\ UNCHANGED <<contextVars, botVars, now, ticks, quotaVars, admitted, serviceVars,
                   lastGlobalResponse, userResponses, replyLog, lastAllowed>>

\* the five-minute timer the constructor arms: () => this.cleanup()
Cleanup ==
    /\ hourlyResponses' = FilteredHourly
    /\ userResponses' =
         [u \in {x \in DOMAIN userResponses :
                   ~(userResponses[x] < now - HourMs)} |-> userResponses[u]]
    /\ lastCall' = LimiterCall("cleanup", "", TRUE, "", 0)
    /\ UNCHANGED <<contextVars, botVars, now, ticks, quotaVars, admitted, serviceVars,
                   lastGlobalResponse, replyLog, lastAllowed>>

\* the clock advances
ThrottleTick(d) ==
    /\ ticks < MaxThrottleTicks
    /\ now' = now + d
    /\ ticks' = ticks + 1
    /\ UNCHANGED <<contextVars, botVars, quotaVars, admitted, serviceVars, limiterVars, lastCall>>

\* the time of the i-th of p earlier replies, one every userCooldown
LoadedReplyTime(p, i) == ThrottleStart - (p - i + 1) * userCooldown

\* the state after construction, or after p replies to one author
ThrottleInit ==
    /\ now = ThrottleStart
    /\ ticks = 0
    /\ dailyQuotaUsed = 0
    /\ quotaResetTime = 2 * DayMs
    /\ quotaHistory = <<>>
    /\ admitted = "none"
    /\ pending = [o \in Ops |-> 0]
    /\ oauthTokens = TRUE
    /\ \E p \in {0, PreloadedReplies} :
          /\ hourlyResponses = [i \in 1..p |-> LoadedReplyTime(p, i)]
          /\ replyLog = [i \in 1..p |->
                           [time |-> LoadedReplyTime(p, i), user |-> "alice"]]
          /\ lastGlobalResponse = IF p = 0 THEN 0 ELSE LoadedReplyTime(p, p)
          /\ userResponses = IF p = 0 THEN <<>>
                             ELSE [u \in {"alice"} |-> LoadedReplyTime(p, p)]
    /\ lastAllowed = [at |-> -1, replies |-> 0]
    /\ ContextFresh
    /\ BotFresh
    /\ lastCall = NoCall(ThrottleStart)

ThrottleNext ==
    \/ \E u \in Authors : CanRespond(u)
    \/ \E u \in Authors : RecordResponse(u)
    \/ GetStats
    \/ Cleanup
    \/ \E d \in ThrottleTicks : ThrottleTick(d)

SpecThrottle == ThrottleInit /\ [][ThrottleNext]_vars

----------------------------------------------------------------------------
(* The context of SmartYouTubeChatBot: recent events, message history and  *)
(* the chat mood derived from it.  The handlers are written as functions   *)
(* of the program state s, a record of the fields they read and assign, so *)
(* that the statements of one handler compose in the order of the code.    *)

MESSAGE_HISTORY_CAP == 100
RECENT_EVENTS_CAP == 50
MOOD_WINDOW == 10
MOOD_EXCITED_MIN == 6
MOOD_FRUSTRATED_MIN == 6
MOOD_SUPPORTIVE_MIN == 4

\* most updateContext calls in one run of the context model
MaxInserts == 6
\* most clock advances in one run of the context model
MaxContextTicks == 1
\* messages already in the history when a run of the context model starts
PreloadedMessages == 99

\* analysis.sentiment as MessageAnalyzer.analyzeSentiment returns it
Sentiments == {"positive", "negative", "neutral"}

\* the event types updateContext is called with
EventTypes == {"streamStarted", "messageReceived"}

\* the clock advance between context events: the period of the cleanup timer
ContextTicks == {1800000}

\* recentSentiments.filter(s => s === sentiment).length
SentimentCount(history, sentiment) ==
    Len(SelectSeq(history, LAMBDA msg : msg.sentiment = sentiment))

\* the if/else chain of updateChatMood over the recent messages
MoodOf(recent) ==
    IF SentimentCount(recent, "positive") >= MOOD_EXCITED_MIN THEN "excited"
    ELSE IF SentimentCount(recent, "negative") >= MOOD_FRUSTRATED_MIN
         THEN "frustrated"
    ELSE IF SentimentCount(recent, "positive") >= MOOD_SUPPORTIVE_MIN
         THEN "supportive"
    ELSE "neutral"

\* updateChatMood(sentiment): the mood of messageHistory.slice(-10); the
\* argument is not read
updateChatMood(s) ==
    [s EXCEPT !.chatMood = MoodOf(SliceLast(s.messageHistory, MOOD_WINDOW))]

\* a trim of the history that keeps the oldest entries
CapMessages_keepOldest(history) ==
    IF Len(history) > MESSAGE_HISTORY_CAP
    THEN SubSeq(history, 1, MESSAGE_HISTORY_CAP) ELSE history

\* if (messageHistory.length > 100) messageHistory = messageHistory.slice(-100)
CapMessages(history) == SliceLast(history, MESSAGE_HISTORY_CAP)

\* if (recentEvents.length > 50) recentEvents = recentEvents.slice(-50)
CapEvents(events) == SliceLast(events, RECENT_EVENTS_CAP)

\* the entry updateContext pushes to recentEvents
EventEntry(s, eventType) ==
    [id |-> s.inserted.events + 1, timestamp |-> now, type |-> eventType]

\* the entry updateContext pushes to messageHistory
MessageEntry(s, sentiment) ==
    [id |-> s.inserted.messages + 1, timestamp |-> now,
     sentiment |-> sentiment]

\* updateContext(eventType, data): the event is pushed and trimmed; for a
\* received message the mood is updated and then the message is pushed and
\* trimmed
updateContext(s, eventType, sentiment) ==
    LET s1 == [s EXCEPT !.recentEvents =
                          CapEvents(Append(@, EventEntry(s, eventType))),
                        !.inserted.events = @ + 1]
        s2 == updateChatMood(s1)
    IN IF eventType = "messageReceived"
       THEN [s2 EXCEPT !.messageHistory =
                         CapMessages(Append(@, MessageEntry(s, sentiment))),
                       !.inserted.messages = @ + 1]
       ELSE s1

\* a sweep that keeps the entries that are exactly one hour old
cleanupContext_keepsHourOld(s) ==
    [s EXCEPT !.messageHistory =
                SelectSeq(@, LAMBDA msg : msg.timestamp >= now - HourMs),
              !.recentEvents =
                SelectSeq(@, LAMBDA event : event.timestamp >= now - HourMs)]

\* cleanupContext(): both lists keep the entries younger than one hour
cleanupContext(s) ==
    [s EXCEPT !.messageHistory =
                SelectSeq(@, LAMBDA msg : msg.timestamp > now - HourMs),
              !.recentEvents =
                SelectSeq(@, LAMBDA event : event.timestamp > now - HourMs)]

\* cleanup(): the session identifiers and the context are reset
cleanup(s) ==
    [s EXCEPT !.videoId = 0, !.liveChatId = 0, !.nextPageToken = 0,
              !.isRunning = FALSE, !.consecutiveErrors = 0,
              !.currentGame = "", !.gameState = "unknown",
              !.chatMood = "neutral"]

\* the program state the handlers read and assign
State ==
    [dailyQuotaUsed |-> dailyQuotaUsed, quotaResetTime |-> quotaResetTime,
     quotaHistory |-> quotaHistory, pending |-> pending,
     lastGlobalResponse |-> lastGlobalResponse,
     userResponses |-> userResponses, hourlyResponses |-> hourlyResponses,
     replyLog |-> replyLog, lastAllowed |-> lastAllowed,
     currentGame |-> currentGame, gameState |-> gameState,
     chatMood |-> chatMood, messageHistory |-> messageHistory,
     recentEvents |-> recentEvents, inserted |-> inserted,
     started |-> started, isRunning |-> isRunning,
     isMonitoring |-> isMonitoring, videoId |-> videoId,
     liveChatId |-> liveChatId, nextPageToken |-> nextPageToken,
     consecutiveErrors |-> consecutiveErrors, intervals |-> intervals,
     awaiting |-> awaiting, pollTimers |-> pollTimers,
     sendTimers |-> sendTimers, sending |-> sending,
     restartTimers |-> restartTimers, shutdown |-> shutdown,
     exited |-> exited, spent |-> spent]

\* the step leaves the program in state s
Becomes(s) ==
    /\ dailyQuotaUsed' = s.dailyQuotaUsed
    /\ quotaResetTime' = s.quotaResetTime
    /\ quotaHistory' = s.quotaHistory
    /\ pending' = s.pending
    /\ lastGlobalResponse' = s.lastGlobalResponse
    /\ userResponses' = s.userResponses
    /\ hourlyResponses' = s.hourlyResponses
    /\ replyLog' = s.replyLog
    /\ lastAllowed' = s.lastAllowed
    /\ currentGame' = s.currentGame
    /\ gameState' = s.gameState
    /\ chatMood' = s.chatMood
    /\ messageHistory' = s.messageHistory
    /\ recentEvents' = s.recentEvents
    /\ inserted' = s.inserted
    /\ started' = s.started
    /\ isRunning' = s.isRunning
    /\ isMonitoring' = s.isMonitoring
    /\ videoId' = s.videoId
    /\ liveChatId' = s.liveChatId
    /\ nextPageToken' = s.nextPageToken
    /\ consecutiveErrors' = s.consecutiveErrors
    /\ intervals' = s.intervals
    /\ awaiting' = s.awaiting
    /\ pollTimers' = s.pollTimers
    /\ sendTimers' = s.sendTimers
    /\ sending' = s.sending
    /\ restartTimers' = s.restartTimers
    /\ shutdown' = s.shutdown
    /\ exited' = s.exited
    /\ spent' = s.spent

----------------------------------------------------------------------------
(* The context driven by its three callers: updateContext, the cleanup     *)
(* timer and cleanup()                                                     *)

\* updateContext(eventType, data) called
UpdateContext(eventType, sentiment) ==
    /\ spent.messages < MaxInserts
    /\ eventType = "streamStarted" => sentiment = "neutral"
    /\ Becomes([updateContext(State, eventType, sentiment)
                  EXCEPT !.spent.messages = @ + 1])
    /\ lastCall' = Call("updateContext", eventType, TRUE, sentiment)
    /\ UNCHANGED <<now, ticks, admitted, oauthTokens>>

\* the 30-minute timer of setupCleanupIntervals: () => this.cleanupContext()
CleanupContextTimer ==
    /\ ~exited
    /\ intervals.contextCleanup
    /\ Becomes(cleanupContext(State))
    /\ UNCHANGED <<now, ticks, admitted, oauthTokens, lastCall>>

\* handleStreamEnded(): this.cleanup()
HandleStreamEnded ==
    /\ Becomes(cleanup(State))
    /\ UNCHANGED <<now, ticks, admitted, oauthTokens, lastCall>>

\* the clock advances
ContextTick(d) ==
    /\ ticks < MaxContextTicks
    /\ now' = now + d
    /\ ticks' = ticks + 1
    /\ UNCHANGED <<quotaVars, admitted, serviceVars, limiterVars,
                   contextVars, botVars, lastCall>>

\* the bot after start() found no stream: monitoring, both intervals armed
BotMonitoring ==
    /\ started = TRUE
    /\ isRunning = FALSE
    /\ isMonitoring = TRUE
    /\ videoId = 0
    /\ liveChatId = 0
    /\ nextPageToken = 0
    /\ consecutiveErrors = 0
    /\ intervals = [streamCheck |-> TRUE, contextCleanup |-> TRUE]
    /\ awaiting = [probe |-> "none", lookup |-> "none"]
    /\ pollTimers = <<>>
    /\ sendTimers = <<>>
    /\ sending = <<>>
    /\ restartTimers = 0
    /\ shutdown = [runs |-> 0, farewell |-> 0, stopping |-> 0, exitTimers |-> 0]
    /\ exited = FALSE
    /\ spent = [polls |-> 0, messages |-> 0, probes |-> 0, signals |-> 0]

\* the time of the i-th of k earlier messages, one every 20 seconds
LoadedMessageTime(k, i) == StartOfRun - (k - i + 1) * 20000

\* the history after k earlier messages of one sentiment
LoadedMessages(k, sentiment) ==
    [i \in 1..k |-> [id |-> i, timestamp |-> LoadedMessageTime(k, i),
                     sentiment |-> sentiment]]

\* the events after a stream start and k earlier messages
LoadedEvents(k) ==
    CapEvents([i \in 1..(k + 1) |->
                 [id |-> i,
                  timestamp |-> LoadedMessageTime(k, IF i = 1 THEN 1 ELSE i - 1),
                  type |-> IF i = 1 THEN "streamStarted"
                           ELSE "messageReceived"]])

\* the context after construction, or after a stream start and k messages
ContextInit ==
    /\ now = StartOfRun
    /\ ticks = 0
    /\ dailyQuotaUsed = 0
    /\ quotaResetTime = 2 * DayMs
    /\ quotaHistory = <<>>
    /\ admitted = "none"
    /\ pending = [o \in Ops |-> 0]
    /\ oauthTokens = TRUE
    /\ LimiterFresh
    /\ BotMonitoring
    /\ currentGame = ""
    /\ gameState = "unknown"
    /\ \E k \in {0, PreloadedMessages} : \E sentiment \in {"neutral", "positive"} :
          /\ k = 0 => sentiment = "neutral"
          /\ messageHistory = LoadedMessages(k, sentiment)
          /\ recentEvents = IF k = 0 THEN <<>> ELSE LoadedEvents(k)
          /\ inserted = [messages |-> k, events |-> IF k = 0 THEN 0 ELSE k + 1]
          /\ chatMood = IF k = 0 THEN "neutral"
                        ELSE MoodOf(SliceLast(LoadedMessages(k - 1, sentiment),
                                              MOOD_WINDOW))
    /\ lastCall = NoCall(StartOfRun)

ContextNext ==
    \/ \E e \in EventTypes : \E sentiment \in Sentiments :
          UpdateContext(e, sentiment)
    \/ CleanupContextTimer
    \/ HandleStreamEnded
    \/ \E d \in ContextTicks : ContextTick(d)

SpecContext == ContextInit /\ [][ContextNext]_vars

----------------------------------------------------------------------------
(* SmartYouTubeChatBot: the orchestrator.  Every handler is cut at its     *)
(* awaits: the part that runs up to an await is one step, the part that    *)
(* runs when the awaited request settles is another.  A timer fires at     *)
(* some later step; the model keeps the delay it was armed with and does   *)
(* not tie the firing to the clock.                                        *)

MIN_POLL_INTERVAL == 12000
MAX_BACKOFF == 300000
DEFAULT_POLL_INTERVAL == 15000
QUOTA_PAUSE == 60000
maxConsecutiveErrors == 5
STREAM_START_HOUR == 18
STREAM_END_HOUR == 23

\* most polls issued in one run
MaxPolls == 3
\* most chat messages received in one run
MaxMessages == 1
\* most stream probes issued in one run
MaxProbes == 1
\* most SIGINT/SIGTERM signals in one run
MaxSignals == 1
\* polls already charged today when a run starts late in the quota day
PreloadedPolls == 1778
\* failed polls after them when a run starts in the middle of a backoff
PreloadedPollFailures == 3

\* config.BOT_NAME
BOT_NAME == "bot"
\* OwnerDetection.ownerUsernames and OwnerDetection.moderators
OwnerUsernames == {"streamer"}
Moderators == {"mod"}

\* message.authorDetails of the chatters: the channel owner, a moderator by
\* name, a verified viewer, a plain viewer and the bot itself
Chatters ==
    { [name |-> "streamer", channelIsOwner |-> TRUE, isChatOwner |-> TRUE,
       isVerified |-> FALSE],
      [name |-> "mod", channelIsOwner |-> FALSE, isChatOwner |-> FALSE,
       isVerified |-> FALSE],
      [name |-> "vera", channelIsOwner |-> FALSE, isChatOwner |-> FALSE,
       isVerified |-> TRUE],
      [name |-> "alice", channelIsOwner |-> FALSE, isChatOwner |-> FALSE,
       isVerified |-> FALSE],
      [name |-> BOT_NAME, channelIsOwner |-> FALSE, isChatOwner |-> FALSE,
       isVerified |-> FALSE] }

\* snippet.displayMessage of the messages: commands and plain chat
Texts == {"!shutdown", "!restart", "!say hi", "!ping", "hello"}

\* what the response generator returns when it returns a response
GENERATED == "generated"

\* the chatter of a name
Chatter(name) == CHOOSE author \in Chatters : author.name = name

\* a message: author, text, and what the analyzer and the response
\* generator make of it (respond: shouldRespond(analysis) holds and
\* generate(...) returns a response)
Message(name, text, sentiment, respond) ==
    [author |-> Chatter(name), text |-> text, sentiment |-> sentiment,
     respond |-> respond]

\* the messages a poll can return: every text from the owner, the commands
\* from the others, plain chat from a viewer, and the bot's own message
Messages ==
    {Message("streamer", text, "neutral", FALSE) : text \in Texts}
    \cup {Message("mod", text, "neutral", respond) :
             text \in {"!say hi", "!ping", "!shutdown"}, respond \in BOOLEAN}
    \cup {Message(name, "!say hi", "neutral", respond) :
             name \in {"vera", "alice"}, respond \in BOOLEAN}
    \cup {Message("alice", "hello", "positive", respond) :
             respond \in BOOLEAN}
    \cup {Message(BOT_NAME, "hello", "neutral", FALSE)}

\* result.pollingIntervalMillis of a successful poll (0: not given)
SuggestedIntervals == {0, 5000, 20000}

Max(a, b) == IF a >= b THEN a ELSE b
Min(a, b) == IF a <= b THEN a ELSE b

\* a sequence without its i-th element
Without(seq, i) ==
    [j \in 1..(Len(seq) - 1) |-> IF j < i THEN seq[j] ELSE seq[j + 1]]

\* OwnerDetection.isOwnerOrAdmin(message)
isOwnerOrAdmin(author) ==
    \/ author.channelIsOwner
    \/ author.isChatOwner
    \/ author.name \in OwnerUsernames
    \/ author.name \in Moderators

\* OwnerDetection.getUserPermissionLevel(message)
getUserPermissionLevel(author) ==
    IF author.channelIsOwner \/ author.isChatOwner THEN "owner"
    ELSE IF author.name \in OwnerUsernames THEN "owner"
    ELSE IF author.name \in Moderators THEN "moderator"
    ELSE IF author.isVerified THEN "verified"
    ELSE "user"

\* a window test that has no upper end when the window does not wrap
isStreamingTime_openEnded(hour, start, end) ==
    IF start <= end THEN hour >= start
    ELSE hour >= start \/ hour <= end

\* isStreamingTime(): hour against the configured window
isStreamingTime(hour, start, end) ==
    IF start <= end THEN hour >= start /\ hour <= end
    ELSE hour >= start \/ hour <= end

\* new Date().getHours()
HourOfDay == (now \div HourMs) % 24

\* checkQuotaReset() on state s
checkedQuota(s) ==
    IF now >= s.quotaResetTime
    THEN [s EXCEPT !.dailyQuotaUsed = 0, !.quotaResetTime = getNextQuotaReset,
                   !.quotaHistory = <<>>]
    ELSE s

\* the value canMakeApiCall(operationType) returns in state s
mayCall(s, operationType) ==
    ~ExceedsSafeLimit(checkedQuota(s).dailyQuotaUsed, operationType)

\* trackApiCall(operationType, success) on state s
tracked(s, operationType, success) ==
    [s EXCEPT !.dailyQuotaUsed = Charged(@, operationType, success),
              !.quotaHistory =
                 SliceLast(Append(@, HistoryEntry(operationType, success)),
                           QUOTA_HISTORY_CAP)]

\* a service method passes its gate and issues its transport request
issued(s, operationType) ==
    [checkedQuota(s) EXCEPT !.pending[operationType] = @ + 1]

\* the request of a service method settles: trackApiCall(op, success)
settled(s, operationType, success) ==
    tracked([s EXCEPT !.pending[operationType] = @ - 1],
            operationType, success)

\* a run of gracefulShutdown that skips or loses the farewell goes on to
\* await webServer.stop()
stoppingServer(s) == [s EXCEPT !.shutdown.stopping = @ + 1]

\* gracefulShutdown() up to its first await: the flags, clearInterval on
\* this.intervals, then the farewell if there is a chat and a sender
gracefulShutdown(s) ==
    LET s1 == [s EXCEPT !.isRunning = FALSE, !.isMonitoring = FALSE,
                        !.intervals = [streamCheck |-> FALSE,
                                       contextCleanup |-> FALSE],
                        !.shutdown.runs = @ + 1]
    IN IF s1.liveChatId # 0 /\ canSendMessages
       THEN IF mayCall(s1, "CHAT_INSERT")
            THEN [issued(s1, "CHAT_INSERT") EXCEPT !.shutdown.farewell = @ + 1]
            ELSE stoppingServer(checkedQuota(s1))
       ELSE stoppingServer(s1)

\* handleError(error): count it, and stop() at the threshold
handleError(s) ==
    LET s1 == [s EXCEPT !.consecutiveErrors = @ + 1]
    IN IF s1.consecutiveErrors >= maxConsecutiveErrors
       THEN gracefulShutdown(s1) ELSE s1

\* setTimeout(() => this.pollMessages(), delay)
pollScheduled(s, delay, after) ==
    [s EXCEPT !.pollTimers = Append(@, [delay |-> delay, after |-> after])]

\* a poll that counts a refusal by the quota as an error
pollMessages_refusalCounted(s) ==
    IF ~s.isRunning \/ s.liveChatId = 0 THEN s
    ELSE IF ~mayCall(s, "CHAT_LIST")
         THEN pollScheduled(handleError(checkedQuota(s)), QUOTA_PAUSE, "quota")
    ELSE [issued(s, "CHAT_LIST") EXCEPT !.spent.polls = @ + 1]

\* pollMessages() up to its await
pollMessages(s) ==
    IF ~s.isRunning \/ s.liveChatId = 0 THEN s
    ELSE IF ~mayCall(s, "CHAT_LIST")
         THEN pollScheduled(checkedQuota(s), QUOTA_PAUSE, "quota")
    ELSE [issued(s, "CHAT_LIST") EXCEPT !.spent.polls = @ + 1]

\* Math.min(MIN_POLL_INTERVAL * Math.pow(2, consecutiveErrors), MAX_BACKOFF)
backoffTime(errors) == Min(MIN_POLL_INTERVAL * 2 ^ errors, MAX_BACKOFF)

\* a poll interval that takes the suggestion of the server as it comes
pollInterval_noFloor(suggested) ==
    IF suggested = 0 THEN DEFAULT_POLL_INTERVAL ELSE suggested

\* Math.max(result.pollingIntervalMillis || 15000, MIN_POLL_INTERVAL)
pollInterval(suggested) ==
    Max(IF suggested = 0 THEN DEFAULT_POLL_INTERVAL ELSE suggested,
        MIN_POLL_INTERVAL)

\* sendResponse(message, type): the two gates, then the delayed send is armed
sendResponse(s, reply) ==
    IF ~mayCall(s, "CHAT_INSERT") THEN checkedQuota(s)
    ELSE IF ~canSendMessages THEN checkedQuota(s)
    ELSE [checkedQuota(s) EXCEPT !.sendTimers = Append(@, reply)]

\* restart() up to its timer: clearInterval, cleanup(), setTimeout(..., 3000)
restart(s) ==
    [cleanup([s EXCEPT !.intervals = [streamCheck |-> FALSE,
                                      contextCleanup |-> FALSE]])
       EXCEPT !.restartTimers = @ + 1]

\* a say command open to moderators as well
sayAllowed_moderators(permissionLevel) ==
    permissionLevel \in {"owner", "moderator"}

\* the owner-only block of handleAdminCommand
sayAllowed(permissionLevel) == permissionLevel = "owner"

\* handleAdminCommand(text, message): the response returned ("" for null)
adminResponse(message) ==
    LET permissionLevel == getUserPermissionLevel(message.author)
    IN IF permissionLevel = "owner" /\ message.text = "!shutdown"
       THEN "shutting down"
       ELSE IF permissionLevel = "owner" /\ message.text = "!restart"
       THEN "restarting"
       ELSE IF sayAllowed(permissionLevel) /\ message.text = "!say hi"
       THEN "hi"
       ELSE IF permissionLevel \in {"owner", "moderator"}
               /\ message.text = "!ping"
       THEN "pong"
       ELSE ""

\* handleAdminCommand(text, message): what the command does to the state
adminEffect(s, message) ==
    LET permissionLevel == getUserPermissionLevel(message.author)
    IN IF permissionLevel = "owner" /\ message.text = "!shutdown"
       THEN gracefulShutdown(s)
       ELSE IF permissionLevel = "owner" /\ message.text = "!restart"
       THEN restart(s)
       ELSE s

\* the hourly list of state s as getHourlyResponseCount filters it
filteredHourly(s) ==
    SelectSeq(s.hourlyResponses, LAMBDA time : InLastHour(time))

\* the reason rateLimiter.canRespond(userId) returns on state s, or ""
\* when it allows
rateLimit(s, userId) ==
    IF now - s.lastGlobalResponse < globalCooldown THEN "global_cooldown"
    ELSE IF Len(filteredHourly(s)) >= maxResponsesPerHour
    THEN "hourly_limit"
    ELSE IF /\ userId \in DOMAIN s.userResponses
            /\ s.userResponses[userId] # 0
            /\ now - s.userResponses[userId] < userCooldown
    THEN "user_cooldown"
    ELSE ""

\* rateLimiter.canRespond(author) on state s: the list is pruned when the
\* global test lets the call reach getHourlyResponseCount
limiterAsked(s, userId) ==
    [s EXCEPT !.hourlyResponses = IF rateLimit(s, userId) = "global_cooldown"
                                  THEN @ ELSE filteredHourly(s),
              !.lastAllowed = IF rateLimit(s, userId) = ""
                              THEN [at |-> now, replies |-> Len(s.replyLog)]
                              ELSE @]

\* a recordResponse that leaves lastGlobalResponse alone
responseRecorded_noGlobal(s, userId) ==
    [s EXCEPT !.userResponses = (userId :> now) @@ @,
              !.hourlyResponses = Append(@, now),
              !.replyLog = Append(@, [time |-> now, user |-> userId])]

\* rateLimiter.recordResponse(author) on state s
responseRecorded(s, userId) ==
    [s EXCEPT !.lastGlobalResponse = now,
              !.userResponses = (userId :> now) @@ @,
              !.hourlyResponses = Append(@, now),
              !.replyLog = Append(@, [time |-> now, user |-> userId])]

\* the reply handed to sendResponse
Reply(text, type, message, throttled) ==
    [text |-> text, type |-> type,
     level |-> getUserPermissionLevel(message.author),
     throttled |-> throttled, to |-> 0]

\* handleMessageReceived from the rate limiter on: a refused message is
\* dropped; an allowed one is analyzed and recorded in the context, and
\* answered if a response is made
messagePipeline(s, message) ==
    LET s1 == limiterAsked(s, message.author.name)
        s2 == updateContext(s1, "messageReceived", message.sentiment)
    IN IF rateLimit(s, message.author.name) # "" THEN s1
       ELSE IF message.respond
       THEN sendResponse(responseRecorded(s2, message.author.name),
                         Reply(GENERATED, "general", message, TRUE))
       ELSE s2

\* handleMessageReceived(message) as emit() runs it, up to its first await:
\* own messages are skipped; for an owner or admin handleAdminCommand runs
\* and the rest waits for the await; for anyone else the handler runs to
\* its end
messageDispatched(s, message) ==
    IF message.author.name = BOT_NAME THEN s
    ELSE IF isOwnerOrAdmin(message.author) THEN adminEffect(s, message)
    ELSE messagePipeline(s, message)

\* handleMessageReceived(message) from the await of handleAdminCommand on:
\* the response of the command is sent, or the message goes on to the rate
\* limiter
messageResumed(s, message) ==
    IF message.author.name = BOT_NAME THEN s
    ELSE IF ~isOwnerOrAdmin(message.author) THEN s
    ELSE IF adminResponse(message) # ""
    THEN sendResponse(s, Reply(adminResponse(message), "admin", message,
                               FALSE))
    ELSE messagePipeline(s, message)

\* handleMessageReceived(message) from its start to its end
handleMessageReceived(s, message) ==
    messageResumed(messageDispatched(s, message), message)

\* what start() and startMonitoring() do once the probe and the attachment
\* they await are over: the stream check interval, and for start() the
\* cleanup interval and isMonitoring
afterMonitoring(s, caller) ==
    IF caller = "start"
    THEN [s EXCEPT !.intervals = [streamCheck |-> TRUE,
                                  contextCleanup |-> TRUE],
                   !.isMonitoring = TRUE]
    ELSE IF caller = "restart"
    THEN [s EXCEPT !.intervals.streamCheck = TRUE]
    ELSE s

\* connectToChat() up to its await: getLiveChatId passes its gate and the
\* lookup is issued, or it throws and the error is handled
connectToChat(s, caller) ==
    IF mayCall(s, "VIDEO_LIST")
    THEN [issued(s, "VIDEO_LIST") EXCEPT !.awaiting.lookup = caller]
    ELSE afterMonitoring(handleError(checkedQuota(s)), caller)

\* a stream check that counts a skipped probe as an error
checkForStream_skipCounted(s, caller) ==
    IF ~mayCall(s, "SEARCH") \/
       ~isStreamingTime(HourOfDay, STREAM_START_HOUR, STREAM_END_HOUR)
    THEN afterMonitoring([checkedQuota(s) EXCEPT !.consecutiveErrors = @ + 1],
                         caller)
    ELSE [issued(s, "SEARCH") EXCEPT !.awaiting.probe = caller,
                                     !.spent.probes = @ + 1]

\* checkForStream() up to its await, called by startMonitoring or by the
\* stream check interval: the two early returns, or the probe is issued
checkForStream(s, caller) ==
    IF ~mayCall(s, "SEARCH") THEN afterMonitoring(checkedQuota(s), caller)
    ELSE IF ~isStreamingTime(HourOfDay, STREAM_START_HOUR, STREAM_END_HOUR)
    THEN afterMonitoring(checkedQuota(s), caller)
    ELSE [issued(s, "SEARCH") EXCEPT !.awaiting.probe = caller,
                                     !.spent.probes = @ + 1]

\* a probe that reports a stream only when its video is new
probeAnswered_sameVideoIgnored(s, caller, found, game) ==
    LET s1 == settled(s, "SEARCH", found >= 0)
        s2 == IF found > 0 /\ found # s1.videoId
              THEN updateContext([s1 EXCEPT !.videoId = found,
                                            !.currentGame = game],
                                 "streamStarted", "neutral")
              ELSE IF found = 0 /\ s1.videoId # 0 THEN cleanup(s1)
              ELSE IF found < 0
              THEN [s1 EXCEPT !.consecutiveErrors = @ + 1]
              ELSE s1
        isStreaming == found > 0 /\ found # s1.videoId
    IN IF isStreaming /\ (caller = "interval" => ~s2.isRunning)
       THEN connectToChat(s2, caller)
       ELSE afterMonitoring(s2, caller)

\* checkForStream() from its await on, then what its caller does with the
\* answer; found is the video id of the live stream (0: none, -1: the
\* request failed)
probeAnswered(s, caller, found, game) ==
    LET s1 == settled(s, "SEARCH", found >= 0)
        s2 == IF found > 0 /\ found # s1.videoId
              THEN updateContext([s1 EXCEPT !.videoId = found,
                                            !.currentGame = game],
                                 "streamStarted", "neutral")
              ELSE IF found = 0 /\ s1.videoId # 0 THEN cleanup(s1)
              ELSE IF found < 0
              THEN [s1 EXCEPT !.consecutiveErrors = @ + 1]
              ELSE s1
        isStreaming == found > 0
    IN IF isStreaming /\ (caller = "interval" => ~s2.isRunning)
       THEN connectToChat(s2, caller)
       ELSE afterMonitoring(s2, caller)

\* connectToChat() from its await on; chat is the live chat id (0: the
\* stream has none, -1: the request failed)
lookupAnswered(s, caller, chat) ==
    LET s1 == settled(s, "VIDEO_LIST", chat >= 0)
        s2 == IF chat > 0
              THEN pollMessages([s1 EXCEPT !.liveChatId = chat,
                                           !.isRunning = TRUE,
                                           !.consecutiveErrors = 0])
              ELSE IF chat < 0 THEN handleError(s1)
              ELSE s1
    IN afterMonitoring(s2, caller)

\* the dispatch loop of pollMessages: emit('messageReceived', message) for
\* the first n messages of the batch, in their order
RECURSIVE batchDispatched(_, _, _)
batchDispatched(s, batch, n) ==
    IF n = 0 THEN s
    ELSE messageDispatched(batchDispatched(s, batch, n - 1), batch[n])

\* the handlers the loop left at an await go on, in the order they were
\* started, once pollMessages has returned
RECURSIVE batchResumed(_, _, _)
batchResumed(s, batch, n) ==
    IF n = 0 THEN s
    ELSE messageResumed(batchResumed(s, batch, n - 1), batch[n])

\* a successful poll that leaves the error counter as it was
pollSucceeded_errorsKept(s, batch, suggested) ==
    LET s1 == settled(s, "CHAT_LIST", TRUE)
        s2 == IF batch = <<>> THEN s1
              ELSE batchDispatched([s1 EXCEPT !.spent.messages = @ + 1],
                                   batch, Len(batch))
        s3 == pollScheduled([s2 EXCEPT !.nextPageToken = 1],
                            pollInterval(suggested), "success")
    IN batchResumed(s3, batch, Len(batch))

\* pollMessages() from its await on, the poll having succeeded: the
\* dispatch loop, the page token, the error counter and the next poll, and
\* then the handlers that were waiting
pollSucceeded(s, batch, suggested) ==
    LET s1 == settled(s, "CHAT_LIST", TRUE)
        s2 == IF batch = <<>> THEN s1
              ELSE batchDispatched([s1 EXCEPT !.spent.messages = @ + 1],
                                   batch, Len(batch))
        s3 == pollScheduled([s2 EXCEPT !.nextPageToken = 1,
                                       !.consecutiveErrors = 0],
                            pollInterval(suggested), "success")
    IN batchResumed(s3, batch, Len(batch))

\* a failed poll that arms no retry
pollFailed_noRetry(s, terminal) ==
    LET s1 == handleError(settled(s, "CHAT_LIST", FALSE))
    IN IF terminal THEN cleanup(s1) ELSE s1

\* pollMessages() from its await on, the poll having failed: the error is
\* handled first; a terminal error ends the stream, any other arms the retry
pollFailed(s, terminal) ==
    LET s1 == handleError(settled(s, "CHAT_LIST", FALSE))
    IN IF terminal THEN cleanup(s1)
       ELSE pollScheduled(s1, backoffTime(s1.consecutiveErrors), "failure")

\* the delayed send of sendResponse fires: youtubeService.sendMessage up to
\* its await; a refusal is thrown and handled as an error
replySent(s, reply) ==
    IF mayCall(s, "CHAT_INSERT") /\ canSendMessages
    THEN [issued(s, "CHAT_INSERT")
            EXCEPT !.sending = Append(@, [reply EXCEPT !.to = s.liveChatId])]
    ELSE handleError(checkedQuota(s))

\* a farewell whose failure ends the run of gracefulShutdown
farewellSettled_failureEndsRun(s, success) ==
    IF success
    THEN stoppingServer(settled([s EXCEPT !.shutdown.farewell = @ - 1],
                                "CHAT_INSERT", success))
    ELSE settled([s EXCEPT !.shutdown.farewell = @ - 1],
                 "CHAT_INSERT", success)

\* gracefulShutdown() from the farewell on: a failure is caught and logged,
\* then webServer.stop() is awaited
farewellSettled(s, success) ==
    stoppingServer(settled([s EXCEPT !.shutdown.farewell = @ - 1],
                           "CHAT_INSERT", success))

----------------------------------------------------------------------------
(* The steps of the orchestrator *)

\* start(): startMonitoring() up to the await of the first probe
Start ==
    /\ ~exited
    /\ ~started
    /\ Becomes(checkForStream([State EXCEPT !.started = TRUE], "start"))
    /\ UNCHANGED <<now, ticks, admitted, oauthTokens, lastCall>>

\* the stream check interval fires: checkForStream() up to its await
StreamCheckTimer ==
    /\ ~exited
    /\ intervals.streamCheck
    /\ awaiting = [probe |-> "none", lookup |-> "none"]
    /\ spent.probes < MaxProbes
    /\ Becomes(checkForStream(State, "interval"))
    /\ UNCHANGED <<now, ticks, admitted, oauthTokens, lastCall>>

\* the timer of restart() fires: startMonitoring() up to its await
RestartTimer ==
    /\ ~exited
    /\ restartTimers > 0
    /\ awaiting = [probe |-> "none", lookup |-> "none"]
    /\ spent.probes < MaxProbes
    /\ Becomes(checkForStream([State EXCEPT !.restartTimers = @ - 1],
                              "restart"))
    /\ UNCHANGED <<now, ticks, admitted, oauthTokens, lastCall>>

\* youtube.search.list settles
ProbeDone(found, game) ==
    /\ ~exited
    /\ pending["SEARCH"] > 0
    /\ awaiting.lookup = "none"
    /\ found <= 0 => game = ""
    /\ Becomes(probeAnswered([State EXCEPT !.awaiting.probe = "none"],
                             awaiting.probe, found, game))
    /\ UNCHANGED <<now, ticks, admitted, oauthTokens, lastCall>>

\* youtube.videos.list settles
LookupDone(chat) ==
    /\ ~exited
    /\ pending["VIDEO_LIST"] > 0
    /\ spent.polls < MaxPolls
    /\ Becomes(lookupAnswered([State EXCEPT !.awaiting.lookup = "none"],
                              awaiting.lookup, chat))
    /\ UNCHANGED <<now, ticks, admitted, oauthTokens, lastCall>>

\* a poll timer fires: pollMessages() up to its await
PollTimer(i) ==
    /\ ~exited
    /\ i \in DOMAIN pollTimers
    /\ spent.polls < MaxPolls
    /\ Becomes(pollMessages([State EXCEPT !.pollTimers = Without(@, i)]))
    /\ UNCHANGED <<now, ticks, admitted, oauthTokens, lastCall>>

\* liveChatMessages.list resolves with at most one message
PollSucceeded(batch, suggested) ==
    /\ ~exited
    /\ pending["CHAT_LIST"] > 0
    /\ batch # <<>> => spent.messages < MaxMessages
    /\ Becomes(pollSucceeded(State, batch, suggested))
    /\ UNCHANGED <<now, ticks, admitted, oauthTokens, lastCall>>

\* liveChatMessages.list rejects: a terminal error says the chat is
\* disabled or not found, any other error is retried
PollFailed(terminal) ==
    /\ ~exited
    /\ pending["CHAT_LIST"] > 0
    /\ Becomes(pollFailed(State, terminal))
    /\ UNCHANGED <<now, ticks, admitted, oauthTokens, lastCall>>

\* the delayed send of a reply fires
SendTimer(i) ==
    /\ ~exited
    /\ i \in DOMAIN sendTimers
    /\ Becomes(replySent([State EXCEPT !.sendTimers = Without(@, i)],
                         sendTimers[i]))
    /\ UNCHANGED <<now, ticks, admitted, oauthTokens, lastCall>>

\* liveChatMessages.insert of a reply settles; a failure is handled
SendDone(i, success) ==
    /\ ~exited
    /\ i \in DOMAIN sending
    /\ LET s == settled([State EXCEPT !.sending = Without(@, i)],
                        "CHAT_INSERT", success)
       IN Becomes(IF success THEN s ELSE handleError(s))
    /\ UNCHANGED <<now, ticks, admitted, oauthTokens, lastCall>>

\* SIGINT or SIGTERM: botInstance.gracefulShutdown() up to its first await
Signal ==
    /\ ~exited
    /\ spent.signals < MaxSignals
    /\ Becomes(gracefulShutdown([State EXCEPT !.spent.signals = @ + 1]))
    /\ UNCHANGED <<now, ticks, admitted, oauthTokens, lastCall>>

\* liveChatMessages.insert of the farewell settles
FarewellDone(success) ==
    /\ ~exited
    /\ shutdown.farewell > 0
    /\ Becomes(farewellSettled(State, success))
    /\ UNCHANGED <<now, ticks, admitted, oauthTokens, lastCall>>

\* webServer.stop() resolves: emit('botStopped'), then the exit timer
ServerStopped ==
    /\ ~exited
    /\ shutdown.stopping > 0
    /\ Becomes([State EXCEPT !.shutdown.stopping = @ - 1,
                             !.shutdown.exitTimers = @ + 1])
    /\ UNCHANGED <<now, ticks, admitted, oauthTokens, lastCall>>

\* the exit timer fires: process.exit(0)
Exit ==
    /\ ~exited
    /\ shutdown.exitTimers > 0
    /\ Becomes([State EXCEPT !.exited = TRUE])
    /\ UNCHANGED <<now, ticks, admitted, oauthTokens, lastCall>>

\* the time of the i-th of n earlier requests, one every 15 seconds
LoadedRequestTime(n, i) == StartOfRun - (n - i + 1) * DEFAULT_POLL_INTERVAL

\* the quota history of a session: the probe, the lookup, k polls that
\* succeeded and then e polls that failed
SessionHistory(k, e) ==
    SliceLast(
      [i \in 1..(2 + k + e) |->
         [timestamp |-> LoadedRequestTime(2 + k + e, i),
          operation |-> IF i = 1 THEN "SEARCH"
                        ELSE IF i = 2 THEN "VIDEO_LIST" ELSE "CHAT_LIST",
          cost |-> IF i = 1 THEN Cost("SEARCH")
                   ELSE IF i = 2 THEN Cost("VIDEO_LIST")
                   ELSE IF i <= 2 + k THEN Cost("CHAT_LIST") ELSE 0,
          success |-> i <= 2 + k]],
      QUOTA_HISTORY_CAP)

\* the bot in the middle of a session: attached to the chat of the stream
\* it found, k polls made and then e more that failed, the next scheduled
BotPolling(k, e) ==
    /\ started = TRUE
    /\ isRunning = TRUE
    /\ isMonitoring = TRUE
    /\ videoId = 1
    /\ liveChatId = 1
    /\ nextPageToken = 1
    /\ consecutiveErrors = e
    /\ intervals = [streamCheck |-> TRUE, contextCleanup |-> TRUE]
    /\ awaiting = [probe |-> "none", lookup |-> "none"]
    /\ pollTimers = IF e = 0
                    THEN <<[delay |-> DEFAULT_POLL_INTERVAL,
                            after |-> "success"]>>
                    ELSE <<[delay |-> backoffTime(e), after |-> "failure"]>>
    /\ sendTimers = <<>>
    /\ sending = <<>>
    /\ restartTimers = 0
    /\ shutdown = [runs |-> 0, farewell |-> 0, stopping |-> 0, exitTimers |-> 0]
    /\ exited = FALSE
    /\ spent = [polls |-> 0, messages |-> 0, probes |-> 0, signals |-> 0]
    /\ dailyQuotaUsed = Cost("SEARCH") + Cost("VIDEO_LIST")
                        + k * Cost("CHAT_LIST")
    /\ quotaHistory = SessionHistory(k, e)
    /\ currentGame = "minecraft"
    /\ gameState = "unknown"
    /\ chatMood = "neutral"
    /\ messageHistory = <<>>
    /\ recentEvents =
         IF LoadedRequestTime(2 + k + e, 1) > StartOfRun - HourMs
         THEN <<[id |-> 1, timestamp |-> LoadedRequestTime(2 + k + e, 1),
                 type |-> "streamStarted"]>>
         ELSE <<>>
    /\ inserted = [messages |-> 0, events |-> 1]

\* the bot as constructed; or monitoring after a first probe found no
\* stream; or in the middle of a session late in the quota day, the last
\* poll answered or the last three failed
BotInit ==
    /\ now = StartOfRun
    /\ ticks = 0
    /\ quotaResetTime = 2 * DayMs
    /\ admitted = "none"
    /\ pending = [o \in Ops |-> 0]
    /\ oauthTokens \in BOOLEAN
    /\ LimiterFresh
    /\ \/ /\ BotFresh
          /\ ContextFresh
          /\ dailyQuotaUsed = 0
          /\ quotaHistory = <<>>
       \/ /\ BotMonitoring
          /\ ContextFresh
          /\ dailyQuotaUsed = Cost("SEARCH")
          /\ quotaHistory = <<[timestamp |-> LoadedRequestTime(1, 1),
                               operation |-> "SEARCH",
                               cost |-> Cost("SEARCH"), success |-> TRUE]>>
       \/ BotPolling(PreloadedPolls, 0)
       \/ BotPolling(PreloadedPolls, PreloadedPollFailures)
    /\ lastCall = NoCall(StartOfRun)

BotNext ==
    \/ Start
    \/ StreamCheckTimer
    \/ RestartTimer
    \/ \E found \in {-1, 0, 1, 2} : \E game \in {"", "minecraft"} :
          ProbeDone(found, game)
    \/ \E chat \in {-1, 0, 1} : LookupDone(chat)
    \/ \E i \in 1..2 : PollTimer(i)
    \/ \E batch \in {<<>>} \cup {<<m>> : m \in Messages} :
          \E suggested \in SuggestedIntervals : PollSucceeded(batch, suggested)
    \/ \E terminal \in BOOLEAN : PollFailed(terminal)
    \/ \E i \in 1..2 : SendTimer(i)
    \/ \E i \in 1..2 : \E success \in BOOLEAN : SendDone(i, success)
    \/ Signal
    \/ \E success \in BOOLEAN : FarewellDone(success)
    \/ ServerStopped
    \/ Exit

SpecBot == BotInit /\ [][BotNext]_vars

\* the transport answers, the web server closes and the exit timer fires
BotFairness ==
    /\ WF_vars(\E success \in BOOLEAN : FarewellDone(success))
    /\ WF_vars(ServerStopped)
    /\ WF_vars(Exit)

SpecBotFair == SpecBot /\ BotFairness

----------------------------------------------------------------------------
(* The message pipeline: polls whose answers carry several messages *)

\* clock advances in a run of the pipeline
MaxDispatchTicks == 2
\* polls already charged today when a run starts early in a session
PreloadedQuietPolls == 10
\* how long ago the reply of an earlier run was recorded
LoadedReplyAge == 3000

\* messages in the answer of one poll
MaxBatch == 2

\* the time that passes between two steps
DispatchTicks == {5000, 27000}

\* what the owner and two viewers write: plain chat that may be answered,
\* and a command of the owner
DispatchMessages ==
    {Message(name, "hello", sentiment, respond) :
        name \in {"streamer", "alice", "vera"},
        sentiment \in {"positive", "neutral"}, respond \in BOOLEAN}
    \cup {Message("streamer", "!ping", "neutral", FALSE)}

\* result.messages of a poll: one message or more
DispatchBatches == UNION {[1..n -> DispatchMessages] : n \in 1..MaxBatch}

\* Date.now() moves on between two callbacks
DispatchTick(d) ==
    /\ ticks < MaxDispatchTicks
    /\ now' = now + d
    /\ ticks' = ticks + 1
    /\ UNCHANGED <<quotaVars, admitted, serviceVars, limiterVars,
                   contextVars, botVars, lastCall>>

\* the rate limiter after one reply to a viewer
LimiterLoaded ==
    /\ lastGlobalResponse = StartOfRun - LoadedReplyAge
    /\ userResponses = ("alice" :> (StartOfRun - LoadedReplyAge))
    /\ hourlyResponses = <<StartOfRun - LoadedReplyAge>>
    /\ replyLog = <<[time |-> StartOfRun - LoadedReplyAge, user |-> "alice"]>>
    /\ lastAllowed = [at |-> StartOfRun - LoadedReplyAge, replies |-> 0]

\* the bot early in a session, attached and polling, able to send; it has
\* answered nobody yet or one viewer a moment ago
DispatchInit ==
    /\ now = StartOfRun
    /\ ticks = 0
    /\ quotaResetTime = 2 * DayMs
    /\ admitted = "none"
    /\ pending = [o \in Ops |-> 0]
    /\ oauthTokens = TRUE
    /\ LimiterFresh \/ LimiterLoaded
    /\ BotPolling(PreloadedQuietPolls, 0)
    /\ lastCall = NoCall(StartOfRun)

DispatchNext ==
    \/ \E d \in DispatchTicks : DispatchTick(d)
    \/ \E i \in 1..2 : PollTimer(i)
    \/ \E batch \in DispatchBatches : PollSucceeded(batch, 0)
    \/ \E i \in 1..MaxBatch : SendTimer(i)
    \/ \E i \in 1..MaxBatch, success \in BOOLEAN : SendDone(i, success)

SpecDispatch == DispatchInit /\ [][DispatchNext]_vars

----------------------------------------------------------------------------
(* A session under way: restarts, probes and replies while polling *)

\* polls already charged today when a run starts with the quota nearly used
PreloadedBusyPolls == 1768

\* what is written in the chat: a restart command of the owner, and plain
\* chat of a viewer that is answered
SessionMessages ==
    {Message("streamer", "!restart", "neutral", FALSE),
     Message("alice", "hello", "positive", TRUE)}

\* sends of replies that failed since the last poll was answered
PreloadedSendFailures == 4

\* the bot after a poll answer that brought several commands of the owner:
\* the sends of the first replies have failed, the last reply waits for
\* its delay
BotAnswering(k, f) ==
    /\ started = TRUE
    /\ isRunning = TRUE
    /\ isMonitoring = TRUE
    /\ videoId = 1
    /\ liveChatId = 1
    /\ nextPageToken = 1
    /\ consecutiveErrors = f
    /\ intervals = [streamCheck |-> TRUE, contextCleanup |-> TRUE]
    /\ awaiting = [probe |-> "none", lookup |-> "none"]
    /\ pollTimers = <<[delay |-> DEFAULT_POLL_INTERVAL, after |-> "success"]>>
    /\ sendTimers = <<Reply("pong", "admin",
                            Message("streamer", "!ping", "neutral", FALSE),
                            FALSE)>>
    /\ sending = <<>>
    /\ restartTimers = 0
    /\ shutdown = [runs |-> 0, farewell |-> 0, stopping |-> 0, exitTimers |-> 0]
    /\ exited = FALSE
    /\ spent = [polls |-> 0, messages |-> 0, probes |-> 0, signals |-> 0]
    /\ dailyQuotaUsed = Cost("SEARCH") + Cost("VIDEO_LIST")
                        + k * Cost("CHAT_LIST")
    /\ quotaHistory =
         SliceLast(SessionHistory(k, 0)
                   \o [i \in 1..f |->
                        [timestamp |-> StartOfRun - (f - i + 1) * 1000,
                         operation |-> "CHAT_INSERT", cost |-> 0,
                         success |-> FALSE]],
                   QUOTA_HISTORY_CAP)
    /\ currentGame = "minecraft"
    /\ gameState = "unknown"
    /\ chatMood = "neutral"
    /\ messageHistory = <<>>
    /\ recentEvents =
         <<[id |-> 1, timestamp |-> LoadedRequestTime(2 + k, 1),
            type |-> "streamStarted"]>>
    /\ inserted = [messages |-> 0, events |-> 1]

\* the bot attached and polling, able to send: early in the session with
\* the last poll answered or the last three failed, or with the sends of
\* its replies failing, or with the quota nearly used
SessionInit ==
    /\ now = StartOfRun
    /\ ticks = 0
    /\ quotaResetTime = 2 * DayMs
    /\ admitted = "none"
    /\ pending = [o \in Ops |-> 0]
    /\ oauthTokens = TRUE
    /\ LimiterFresh
    /\ \/ BotPolling(PreloadedQuietPolls, 0)
       \/ BotPolling(PreloadedQuietPolls, PreloadedPollFailures)
       \/ BotPolling(PreloadedBusyPolls, 0)
       \/ BotAnswering(PreloadedQuietPolls, PreloadedSendFailures)
    /\ lastCall = NoCall(StartOfRun)

SessionNext ==
    \/ StreamCheckTimer
    \/ RestartTimer
    \/ \E found \in {-1, 0, 1, 2} : \E game \in {"", "minecraft"} :
          ProbeDone(found, game)
    \/ \E chat \in {-1, 0, 1} : LookupDone(chat)
    \/ \E i \in 1..2 : PollTimer(i)
    \/ \E batch \in {<<>>} \cup {<<m>> : m \in SessionMessages} :
          PollSucceeded(batch, 0)
    \/ \E terminal \in BOOLEAN : PollFailed(terminal)
    \/ \E i \in 1..2 : SendTimer(i)
    \/ \E i \in 1..2 : \E success \in BOOLEAN : SendDone(i, success)
    \/ \E success \in BOOLEAN : FarewellDone(success)
    \/ ServerStopped
    \/ Exit

SpecSession == SessionInit /\ [][SessionNext]_vars

----------------------------------------------------------------------------
(* The claims about the quota manager *)

\* the costs and the ceiling as the specification states them
SpecCost(op) ==
    CASE op = "SEARCH" -> 100
      [] op = "VIDEO_LIST" -> 1
      [] op = "CHAT_LIST" -> 5
      [] op = "CHAT_INSERT" -> 50

\* the step is a call of fn
IsCall(fn) == lastCall'.n # lastCall.n /\ lastCall'.fn = fn

\* C1: with one sequential caller, canMakeApiCall(op) returns false exactly
\* when the usage it reads plus the cost of op exceeds 9000, and when every
\* successful trackApiCall(op) directly follows a canMakeApiCall(op) that
\* returned true, dailyQuotaUsed never exceeds 9000.
C1_SequentialAdmission ==
    [][ /\ dailyQuotaUsed <= 9000
        /\ dailyQuotaUsed' <= 9000
        /\ IsCall("canMakeApiCall") =>
             (lastCall'.ok = FALSE
                <=> dailyQuotaUsed' + SpecCost(lastCall'.arg) > 9000) ]_vars

\* C1 witness: after usage was recorded up to the ceiling, a call is refused
C1_Witness ==
    /\ lastCall.fn = "canMakeApiCall"
    /\ ~lastCall.ok
    /\ dailyQuotaUsed = 9000
    /\ Len(quotaHistory) > 0
    /\ quotaHistory[Len(quotaHistory)].timestamp >= StartOfRun

\* C4: trackApiCall(op, false) leaves dailyQuotaUsed unchanged and pushes one
\* entry with cost 0 and success false; trackApiCall(op, true) adds exactly
\* the cost of op and pushes one entry with that cost.  The entries before
\* the pushed one are the old history (less its oldest entry at the cap).
C4_RecordChargesOnlySuccess ==
    [][ IsCall("trackApiCall") =>
          LET op == lastCall'.arg
              success == lastCall'.ok
              n == Len(quotaHistory')
              front == SubSeq(quotaHistory', 1, n - 1)
          IN /\ n >= 1
             /\ quotaHistory'[n].operation = op
             /\ quotaHistory'[n].success = success
             /\ quotaHistory'[n].cost = (IF success THEN SpecCost(op) ELSE 0)
             /\ dailyQuotaUsed' =
                  dailyQuotaUsed + (IF success THEN SpecCost(op) ELSE 0)
             /\ \/ front = quotaHistory
                \/ /\ Len(quotaHistory) = 100
                   /\ front = Tail(quotaHistory) ]_vars

\* C4 witness: a failed call was recorded on a ledger that holds usage
C4_Witness ==
    /\ lastCall.fn = "trackApiCall"
    /\ ~lastCall.ok
    /\ dailyQuotaUsed > 0
    /\ quotaHistory[Len(quotaHistory)].cost = 0
    /\ quotaHistory[Len(quotaHistory)].timestamp >= StartOfRun

\* C5: canMakeApiCall and trackApiCall both first check now >= quotaResetTime
\* and, when it holds, zero the ledger and advance quotaResetTime before they
\* evaluate the call: a successful trackApiCall made after the boundary is
\* charged to the new day.
C5_BothCheckResetFirst ==
    [][ ((IsCall("canMakeApiCall") \/ IsCall("trackApiCall"))
           /\ now >= quotaResetTime) =>
          /\ quotaResetTime' > now
          /\ dailyQuotaUsed' =
               (IF lastCall'.fn = "trackApiCall" /\ lastCall'.ok
                THEN SpecCost(lastCall'.arg) ELSE 0) ]_vars

\* C6: a reset check (canMakeApiCall or the timer) made at now >= quotaResetTime
\* zeroes dailyQuotaUsed and moves quotaResetTime to a midnight strictly after
\* now; a check made before quotaResetTime leaves both untouched.
C6_ResetOncePerBoundary ==
    [][ (IsCall("canMakeApiCall") \/ IsCall("checkQuotaReset")) =>
          IF now >= quotaResetTime
          THEN /\ dailyQuotaUsed' = 0
               /\ quotaResetTime' > now
               /\ quotaResetTime' % DayMs = 0
               /\ quotaResetTime' - now <= DayMs
          ELSE /\ dailyQuotaUsed' = dailyQuotaUsed
               /\ quotaResetTime' = quotaResetTime ]_vars

\* C6 witness: the timer's check ran more than a day late and reset the ledger
C6_Witness ==
    /\ lastCall.fn = "checkQuotaReset"
    /\ lastCall.ok
    /\ lastCall.at = now
    /\ dailyQuotaUsed = 0
    /\ quotaResetTime > now
    /\ quotaResetTime - 2 * DayMs > DayMs

----------------------------------------------------------------------------
(* The claims about the gated transport requests *)

\* C2: under every interleaving of the service's asynchronous methods (each
\* admits, awaits the transport, then records) dailyQuotaUsed never exceeds
\* the safe ceiling of 9000.
C2_NoOverrunUnderInterleaving == dailyQuotaUsed <= 9000

\* C3: a transport request is issued only in a step in which the quota
\* manager admits its operation (usage read + cost <= 9000); a method whose
\* operation is not admitted issues no request and charges nothing.
C3_EveryRequestGated ==
    [][ /\ \A o \in Ops :
             pending'[o] > pending[o] => dailyQuotaUsed' + SpecCost(o) <= 9000
        /\ \A m \in ServiceMethods :
             (IsCall(m) /\ dailyQuotaUsed' + SpecCost(lastCall'.arg) > 9000) =>
                /\ pending' = pending
                /\ ~lastCall'.ok
                /\ dailyQuotaUsed' \in {dailyQuotaUsed, 0}
                /\ quotaHistory' \in {quotaHistory, <<>>} ]_vars

\* C3 witness: a send was refused by the quota manager after requests had
\* used up the budget
C3_Witness ==
    /\ lastCall.fn = "sendMessage"
    /\ ~lastCall.ok
    /\ lastCall.reason = "quota"
    /\ dailyQuotaUsed + 50 > 9000
    /\ Len(quotaHistory) > 0
    /\ quotaHistory[Len(quotaHistory)].timestamp >= StartOfRun

----------------------------------------------------------------------------
(* The claims about the rate limiter *)

\* canRespond has just returned: nothing was called and no time passed since
JustChecked == lastCall.fn = "canRespond" /\ lastCall.at = now

\* the responses recorded within the trailing 3600 s of now
RepliesInTrailingHour ==
    Cardinality({i \in DOMAIN replyLog : now - replyLog[i].time < 3600000})

\* no response was recorded less than 8000 ms ago
GlobalGatePasses == \A i \in DOMAIN replyLog : now - replyLog[i].time >= 8000

\* the author got no response less than 30000 ms ago
AuthorGatePasses(u) ==
    \A i \in DOMAIN replyLog :
        replyLog[i].user = u => now - replyLog[i].time >= 30000

\* C7: canRespond(author) returns allowed: true exactly when the global
\* spacing (8000 ms since the last response), the hourly cap (fewer than 30
\* responses in the trailing hour) and the author cooldown (30000 ms) all
\* pass at that instant; otherwise the reason is that of the first failing
\* gate in the order global_cooldown, hourly_limit, user_cooldown (the
\* specification's author_cooldown).
C7_AllowedIffAllGatesPass ==
    JustChecked =>
        LET G == GlobalGatePasses
            H == RepliesInTrailingHour < 30
            U == AuthorGatePasses(lastCall.arg)
        IN /\ lastCall.ok <=> (G /\ H /\ U)
           /\ lastCall.reason =
                (IF ~G THEN "global_cooldown"
                 ELSE IF ~H THEN "hourly_limit"
                 ELSE IF ~U THEN "user_cooldown" ELSE "")

\* C7 witness: only the author's cooldown blocked a response
C7_Witness ==
    /\ JustChecked
    /\ lastCall.reason = "user_cooldown"
    /\ GlobalGatePasses
    /\ replyLog # <<>>

\* C8: with globalCooldown = 8000, two canRespond calls made 5000 ms apart
\* cannot both return allowed: true.
C8_NoTwoAllowedFiveSecondsApart ==
    [][ (lastCall'.fn = "canRespond" /\ now' = now /\ lastCall'.ok) =>
          ~(lastAllowed.at >= 0 /\ now - lastAllowed.at = 5000) ]_vars

\* C8 as amended: two canRespond calls made 5000 ms apart cannot both return
\* allowed: true when a response was recorded (recordResponse) after the
\* first of them and before the second.
C8_NoTwoAllowedAcrossARecordedReply ==
    [][ (lastCall'.fn = "canRespond" /\ now' = now /\ lastCall'.ok) =>
          ~(/\ lastAllowed.at >= 0
            /\ now - lastAllowed.at = 5000
            /\ Len(replyLog) > lastAllowed.replies) ]_vars

\* C8 witness: a call allowed a response, the response was recorded, and the
\* call made 5000 ms later was refused
C8_Witness ==
    /\ JustChecked
    /\ ~lastCall.ok
    /\ lastAllowed.at = now - 5000
    /\ Len(replyLog) > lastAllowed.replies

\* C9: once 30 responses have been recorded within the trailing hour,
\* canRespond returns allowed: false with reason hourly_limit, for every
\* author and at every instant of that hour.
C9_ThirtyFirstReportsHourlyLimit ==
    (JustChecked /\ RepliesInTrailingHour >= 30) =>
        (~lastCall.ok /\ lastCall.reason = "hourly_limit")

\* C9 as amended: once 30 responses have been recorded within the trailing
\* hour, canRespond returns allowed: false for every author; the reason is
\* hourly_limit at the instants at least 8000 ms after the last response and
\* global_cooldown at the instants closer to it.
C9_ThirtyFirstRefused ==
    (JustChecked /\ RepliesInTrailingHour >= 30) =>
        /\ ~lastCall.ok
        /\ lastCall.reason =
             (IF GlobalGatePasses THEN "hourly_limit" ELSE "global_cooldown")

\* C9 witness: with 30 responses in the hour, an author who never got one is
\* refused with hourly_limit
C9_Witness ==
    /\ JustChecked
    /\ lastCall.arg = "bob"
    /\ lastCall.reason = "hourly_limit"
    /\ RepliesInTrailingHour >= 30
    /\ AuthorGatePasses("bob")

\* the times of the recorded responses within the trailing 3600 s, in order
TimesInTrailingHour ==
    LET inWindow == SelectSeq(replyLog, LAMBDA r : now - r.time < 3600000)
    IN [i \in DOMAIN inWindow |-> inWindow[i].time]

\* C10: the hourly count is over a sliding window: getStats reports, and
\* leaves in hourlyResponses, exactly the responses recorded within the
\* trailing 3600 s of now, whatever the calendar hour, and canRespond reports
\* hourly_limit only while 30 or more responses lie within that window.
C10_SlidingHourWindow ==
    /\ (lastCall.fn = "getStats" /\ lastCall.at = now) =>
          /\ lastCall.val = RepliesInTrailingHour
          /\ hourlyResponses = TimesInTrailingHour
    /\ (JustChecked /\ lastCall.reason = "hourly_limit") =>
          RepliesInTrailingHour >= 30

\* C10 witness: getStats counted a response of the previous calendar hour
\* and no longer counted one that is an hour old
C10_Witness ==
    /\ lastCall.fn = "getStats"
    /\ lastCall.at = now
    /\ lastCall.val >= 1
    /\ \E i \in DOMAIN replyLog : now - replyLog[i].time >= 3600000
    /\ \E i \in DOMAIN replyLog :
          /\ now - replyLog[i].time < 3600000
          /\ replyLog[i].time \div 3600000 < now \div 3600000

----------------------------------------------------------------------------
(* The claims about the context *)

\* the step is a call of updateContext for a received message
IsRecordMessage == IsCall("updateContext") /\ lastCall'.arg = "messageReceived"

\* the mood the thresholds give for a list of entries: at least 6 positive,
\* else at least 6 negative, else at least 4 positive, else neutral
ThresholdMood(entries) ==
    LET positive == Cardinality({i \in DOMAIN entries :
                                   entries[i].sentiment = "positive"})
        negative == Cardinality({i \in DOMAIN entries :
                                   entries[i].sentiment = "negative"})
    IN IF positive >= 6 THEN "excited"
       ELSE IF negative >= 6 THEN "frustrated"
       ELSE IF positive >= 4 THEN "supportive"
       ELSE "neutral"

\* C13: after a message is recorded, chatMood is the threshold mood of the
\* most recent 10 history entries, the message just recorded included (so 6
\* positive messages into an empty history give excited)
C13_MoodIncludesRecordedMessage ==
    [][IsRecordMessage =>
         chatMood' = ThresholdMood(SliceLast(messageHistory', 10))]_vars

\* the entries of a list are the latest pushed, oldest first: their numbers
\* run up to the number of the last push without a gap
LatestOldestFirst(list, pushed) ==
    \A i \in DOMAIN list : list[i].id = pushed - Len(list) + i

\* C14: messageHistory never holds more than 100 entries nor recentEvents
\* more than 50, both hold the most recent entries oldest first, and a push
\* onto a full list drops exactly the oldest entry
C14_BoundedHistories ==
    /\ [](/\ Len(messageHistory) <= 100
          /\ Len(recentEvents) <= 50
          /\ LatestOldestFirst(messageHistory, inserted.messages)
          /\ LatestOldestFirst(recentEvents, inserted.events))
    /\ [][/\ IsRecordMessage /\ Len(messageHistory) = 100
             => /\ Len(messageHistory') = 100
                /\ SubSeq(messageHistory', 1, 99) = Tail(messageHistory)
                /\ messageHistory'[100].id = inserted.messages + 1
          /\ IsCall("updateContext") /\ Len(recentEvents) = 50
             => /\ Len(recentEvents') = 50
                /\ SubSeq(recentEvents', 1, 49) = Tail(recentEvents)
                /\ recentEvents'[50].id = inserted.events + 1]_vars

\* the 101st message has been pushed: 100 remain, and the events are full
C14_Witness ==
    /\ lastCall.fn = "updateContext"
    /\ inserted.messages = 101
    /\ Len(messageHistory) = 100
    /\ messageHistory[1].id = 2
    /\ Len(recentEvents) = 50

----------------------------------------------------------------------------
(* Claims about the orchestrator *)

\* the phase of the orchestrator, read off its fields
Phase ==
    IF exited THEN "STOPPED"
    ELSE IF shutdown.runs > 0 THEN "STOPPING"
    ELSE IF ~started THEN "IDLE"
    ELSE IF isRunning /\ liveChatId # 0
    THEN IF \E i \in DOMAIN pollTimers : pollTimers[i].after = "failure"
         THEN "BACKOFF" ELSE "POLLING"
    ELSE "AWAITING_STREAM"

\* C11: every reply handed to the delayed send, the reply to an admin
\* command included, was allowed by the rate limiter and is recorded in it
\* by the step that hands it over
C11_EveryReplyThrottled ==
    [][Len(sendTimers') > Len(sendTimers)
         => /\ Len(replyLog') > Len(replyLog)
            /\ lastGlobalResponse' = now
            /\ sendTimers'[Len(sendTimers')].throttled]_vars

\* the replies armed or in flight
RepliesOut ==
    {sendTimers[i] : i \in DOMAIN sendTimers}
    \cup {sending[i] : i \in DOMAIN sending}

\* C12: the bot speaks the text of a say command only for an author whose
\* permission level is owner
C12_SayOnlyForOwner ==
    \A r \in RepliesOut : r.text = "hi" => r.level = "owner"

\* the owner's say command is on its way to the chat
C12_Witness ==
    \E i \in DOMAIN sending :
        sending[i].text = "hi" /\ sending[i].level = "owner"

\* the poll timer armed last
LastPollTimer(timers) == timers[Len(timers)]

\* C15: a poll failure that is retried arms the retry after
\* min(12000 * 2^n, 300000) ms, n being consecutiveErrors before the failure
\* is counted, and leaves consecutiveErrors at n + 1
C15_BackoffFromErrorsBefore ==
    [][PollFailed(FALSE)
         => /\ consecutiveErrors' = consecutiveErrors + 1
            /\ Len(pollTimers') = Len(pollTimers) + 1
            /\ LastPollTimer(pollTimers').delay
                 = Min(MIN_POLL_INTERVAL * 2 ^ consecutiveErrors,
                       MAX_BACKOFF)]_vars

\* C16: a poll that fails with a terminal error while the bot is attached
\* and polling leaves it awaiting a stream, with videoId, liveChatId and
\* nextPageToken cleared, currentGame and gameState reset, and no poll armed
C16_TerminalErrorAwaitsStream ==
    [][(Phase \in {"POLLING", "BACKOFF"} /\ PollFailed(TRUE))
         => /\ Phase' = "AWAITING_STREAM"
            /\ videoId' = 0
            /\ liveChatId' = 0
            /\ nextPageToken' = 0
            /\ currentGame' = ""
            /\ gameState' = "unknown"
            /\ pollTimers' = pollTimers]_vars

\* C17: the transient poll failure that brings consecutiveErrors to
\* maxConsecutiveErrors starts the shutdown and arms no poll retry
C17_FifthFailureArmsNoRetry ==
    [][(Phase \in {"POLLING", "BACKOFF"}
          /\ consecutiveErrors = maxConsecutiveErrors - 1
          /\ PollFailed(FALSE))
         => /\ Phase' \in {"STOPPING", "STOPPED"}
            /\ pollTimers' = pollTimers]_vars

\* C18: a poll the quota refuses while the bot is polling changes neither
\* the phase nor videoId, liveChatId and nextPageToken, issues no request,
\* leaves consecutiveErrors alone and arms the same poll again after 60000 ms
C18_QuotaRefusalPausesPolling ==
    [][\A i \in DOMAIN pollTimers :
         (Phase = "POLLING" /\ ~mayCall(State, "CHAT_LIST") /\ PollTimer(i))
           => /\ Phase' = "POLLING"
              /\ <<videoId, liveChatId, nextPageToken>>'
                   = <<videoId, liveChatId, nextPageToken>>
              /\ pending' = pending
              /\ consecutiveErrors' = consecutiveErrors
              /\ Len(pollTimers') = Len(pollTimers)
              /\ LastPollTimer(pollTimers')
                   = [delay |-> QUOTA_PAUSE, after |-> "quota"]]_vars

\* a poll was refused by the quota and waits for its next attempt
C18_Witness ==
    /\ Phase = "POLLING"
    /\ ~mayCall(State, "CHAT_LIST")
    /\ pollTimers = <<[delay |-> QUOTA_PAUSE, after |-> "quota"]>>
    /\ pending["CHAT_LIST"] = 0
    /\ consecutiveErrors < maxConsecutiveErrors

\* C19: the step that begins a shutdown leaves no poll, send or restart
\* timer armed, and once a shutdown has begun no step issues a poll request
\* or attaches the bot to a chat
C19_NoPollCycleAfterShutdownBegan ==
    [][/\ shutdown.runs' > shutdown.runs
          => /\ pollTimers' = <<>>
             /\ sendTimers' = <<>>
             /\ restartTimers' = 0
       /\ shutdown.runs > 0
          => /\ pending'["CHAT_LIST"] <= pending["CHAT_LIST"]
             /\ liveChatId = 0 => liveChatId' = 0
             /\ ~isRunning => ~isRunning']_vars

\* C20: a shutdown that has begun ends with the exit of the process, whatever
\* becomes of the farewell
C20_ShutdownCompletes == (shutdown.runs > 0) ~> exited

\* the process has exited after a farewell that failed: no message was ever
\* answered, so the failed insert at the end of the quota history is the
\* farewell
C20_Witness ==
    /\ exited
    /\ spent.messages = 0
    /\ quotaHistory # <<>>
    /\ quotaHistory[Len(quotaHistory)].operation = "CHAT_INSERT"
    /\ ~quotaHistory[Len(quotaHistory)].success

\* C21: a shutdown attempts one farewell only: however many stop triggers
\* arrive, never more than one farewell is on its way to the chat
C21_OneFarewell == shutdown.farewell <= 1

\* C22: the step in which a restart command is handled leaves the bot
\* awaiting a stream with the two intervals cleared and videoId, liveChatId
\* and nextPageToken cleared, also when the command came in a poll answer
C22_RestartClearsSession ==
    [][restartTimers' > restartTimers
         => /\ Phase' = "AWAITING_STREAM"
            /\ intervals' = [streamCheck |-> FALSE, contextCleanup |-> FALSE]
            /\ videoId' = 0
            /\ liveChatId' = 0
            /\ nextPageToken' = 0]_vars

\* C28: a poll that fails with a terminal error never begins a shutdown,
\* whatever consecutiveErrors is, and leaves consecutiveErrors at 0
C28_TerminalErrorNotCounted ==
    [][PollFailed(TRUE)
         => /\ shutdown.runs' = shutdown.runs
            /\ consecutiveErrors' = 0]_vars

\* the first n messages of a batch handled one after the other, each from
\* its start to its end
RECURSIVE batchHandledInOrder(_, _, _)
batchHandledInOrder(s, batch, n) ==
    IF n = 0 THEN s
    ELSE handleMessageReceived(batchHandledInOrder(s, batch, n - 1),
                               batch[n])

\* C23: the messages of one poll answer are processed in the order of the
\* answer: the context, the rate limiter and the replies armed are what
\* handling the messages one after the other leaves
C23_BatchProcessedInOrder ==
    [][\A batch \in DispatchBatches :
         PollSucceeded(batch, 0)
           => LET inOrder == batchHandledInOrder(
                               settled(State, "CHAT_LIST", TRUE),
                               batch, Len(batch))
              IN /\ messageHistory' = inOrder.messageHistory
                 /\ replyLog' = inOrder.replyLog
                 /\ sendTimers' = inOrder.sendTimers]_vars

\* C25: every message of a poll answer that the bot did not write is
\* recorded in messageHistory, whatever the rate limiter says
C25_EveryMessageRecorded ==
    [][\A batch \in DispatchBatches :
         PollSucceeded(batch, 0)
           => inserted.messages' = inserted.messages + Len(batch)]_vars

\* C26: each recorded reply is the latest entry of all three trackers of
\* the rate limiter, any two recorded replies are at least globalCooldown
\* apart, and two to the same author at least userCooldown apart
C26_RecordedRepliesSpaced ==
    /\ replyLog # <<>>
         => LET last == replyLog[Len(replyLog)]
            IN /\ lastGlobalResponse = last.time
               /\ last.user \in DOMAIN userResponses
               /\ userResponses[last.user] = last.time
               /\ hourlyResponses # <<>>
               /\ hourlyResponses[Len(hourlyResponses)] = last.time
    /\ \A i, j \in DOMAIN replyLog :
         i < j => /\ replyLog[j].time - replyLog[i].time >= globalCooldown
                  /\ replyLog[i].user = replyLog[j].user
                       => replyLog[j].time - replyLog[i].time >= userCooldown

\* a reply was recorded exactly globalCooldown after the one before it, by
\* the poll answer that has just been handled
C26_Witness ==
    /\ Len(replyLog) = 2
    /\ replyLog[2].time - replyLog[1].time = globalCooldown
    /\ replyLog[2].time = now
    /\ spent.messages = 1
    /\ inserted.messages = 1

\* C24: there is at most one poll cycle: the poll timers armed and the poll
\* requests in flight are never more than one together
C24_OnePollCycle == Len(pollTimers) + pending["CHAT_LIST"] <= 1

C29_ThresholdMeansStopping ==
    consecutiveErrors >= maxConsecutiveErrors => shutdown.runs > 0

\* C30: a reply whose send fails is dropped without a retry, and the
\* failure begins no shutdown: the bot stays in the phase it was in
C30_FailedSendNeverStops ==
    [][\A i \in DOMAIN sending :
         SendDone(i, FALSE)
           => /\ shutdown.runs' = shutdown.runs
              /\ Phase' = Phase
              /\ sendTimers' = sendTimers]_vars

----------------------------------------------------------------------------
(* The quota manager with its status query *)

\* a status query that runs the reset check before it reads the ledger
getQuotaStatus_checksReset == checkQuotaReset

\* getQuotaStatus(): reads the ledger, the boundary and the clock
getQuotaStatus == UNCHANGED quotaVars

\* getQuotaStatus() called (status report, /quota, !quota): of the record
\* it returns, lastCall keeps used in val and the negation of isNearLimit
\* in ok
GetQuotaStatus ==
    /\ lastCall.n < MaxCalls
    /\ getQuotaStatus
    /\ lastCall' = [Call("getQuotaStatus", "",
                         ~(dailyQuotaUsed * 10 > SAFE_QUOTA_LIMIT * 8), "")
                      EXCEPT !.val = dailyQuotaUsed]
    /\ UNCHANGED <<contextVars, botVars, now, ticks, admitted, serviceVars, limiterVars>>

StatusNext ==
    \/ QuotaNext
    \/ GetQuotaStatus

SpecStatus == QuotaInit /\ [][StatusNext]_vars

\* C38: a status query changes neither the usage, nor the reset boundary,
\* nor the history, also when the clock has passed the boundary, and every
\* operation is admitted after the query exactly when it was before it
C38_StatusQueryIsPureRead ==
    [][GetQuotaStatus
         => /\ UNCHANGED <<dailyQuotaUsed, quotaResetTime, quotaHistory>>
            /\ \A o \in Ops : canMakeApiCall(o)' = canMakeApiCall(o)]_vars

\* C38 witness: a status query answered after the boundary had passed,
\* reporting the usage of the day before
C38_Witness ==
    /\ lastCall.fn = "getQuotaStatus"
    /\ now >= quotaResetTime
    /\ lastCall.val > 0
    /\ dailyQuotaUsed = lastCall.val

----------------------------------------------------------------------------
(* isStreamingTime over every hour and every configured window *)

\* the values getHours() returns and STREAM_START_HOUR, STREAM_END_HOUR take
Hours == 0..23

\* the bot before start(), about to test hour against the window start..end
HoursInit ==
    /\ now = StartOfRun
    /\ ticks = 0
    /\ quotaResetTime = 2 * DayMs
    /\ dailyQuotaUsed = 0
    /\ quotaHistory = <<>>
    /\ admitted = "none"
    /\ pending = [o \in Ops |-> 0]
    /\ oauthTokens = TRUE
    /\ LimiterFresh
    /\ ContextFresh
    /\ BotFresh
    /\ \E hour \in Hours : \E start \in Hours : \E end \in Hours :
          lastCall = [NoCall(StartOfRun) EXCEPT !.arg = <<hour, start, end>>]

\* isStreamingTime() called
IsStreamingTime ==
    /\ lastCall.fn = "constructor"
    /\ lastCall' = Call("isStreamingTime", lastCall.arg,
                        isStreamingTime(lastCall.arg[1], lastCall.arg[2],
                                        lastCall.arg[3]), "")
    /\ UNCHANGED <<contextVars, botVars, quotaVars, now, ticks, admitted,
                   serviceVars, limiterVars>>

SpecHours == HoursInit /\ [][IsStreamingTime]_vars

\* the hours start, start + 1, ... end, counted forward round the clock
WindowHours(start, end) ==
    {(start + k) % 24 : k \in 0..((end - start + 24) % 24)}

\* C32 as stated: isStreamingTime answers hour >= start when start <= end,
\* and hour >= start or hour <= end when start > end
C32_NonWrappingActiveFromStart ==
    lastCall.fn = "isStreamingTime"
      => LET hour == lastCall.arg[1]
             start == lastCall.arg[2]
             end == lastCall.arg[3]
         IN lastCall.ok = IF start <= end THEN hour >= start
                          ELSE hour >= start \/ hour <= end

\* C32 amended: isStreamingTime answers true exactly for the hours from
\* start through end counted forward round the clock, so a window that
\* does not wrap is closed at end as well
C32_ActiveInsideWindow ==
    lastCall.fn = "isStreamingTime"
      => LET hour == lastCall.arg[1]
             start == lastCall.arg[2]
             end == lastCall.arg[3]
         IN lastCall.ok = (hour \in WindowHours(start, end))

\* C32 witness: an hour after the end of a window that does not wrap was
\* answered as outside the window
C32_Witness ==
    /\ lastCall.fn = "isStreamingTime"
    /\ lastCall.arg[2] <= lastCall.arg[3]
    /\ lastCall.arg[1] > lastCall.arg[3]
    /\ ~lastCall.ok

----------------------------------------------------------------------------
(* Further claims about the orchestrator *)

\* C31 as stated: a successful poll stores the returned page token and arms
\* exactly one next poll after max(suggested, 12000) ms, nothing suggested
\* counting as no lower bound of its own
C31_NextPollAfterMaxOfSuggestedAndMinimum ==
    [][\A batch \in {<<>>} \cup {<<m>> : m \in Messages} :
         \A suggested \in SuggestedIntervals :
           PollSucceeded(batch, suggested)
             => /\ nextPageToken' = 1
                /\ Len(pollTimers') = Len(pollTimers) + 1
                /\ LastPollTimer(pollTimers').delay
                     = Max(suggested, MIN_POLL_INTERVAL)]_vars

\* C31 amended: a successful poll stores the returned page token and arms
\* exactly one next poll, after max(suggested, 12000) ms when the server
\* suggests an interval and after 15000 ms when it suggests none; the delay
\* is never below 12000 ms
C31_NextPollAfterSuggestedOrDefault ==
    [][\A batch \in {<<>>} \cup {<<m>> : m \in Messages} :
         \A suggested \in SuggestedIntervals :
           PollSucceeded(batch, suggested)
             => /\ nextPageToken' = 1
                /\ Len(pollTimers') = Len(pollTimers) + 1
                /\ SubSeq(pollTimers', 1, Len(pollTimers)) = pollTimers
                /\ LastPollTimer(pollTimers').after = "success"
                /\ LastPollTimer(pollTimers').delay >= MIN_POLL_INTERVAL
                /\ LastPollTimer(pollTimers').delay
                     = IF suggested = 0 THEN DEFAULT_POLL_INTERVAL
                       ELSE Max(suggested, MIN_POLL_INTERVAL)]_vars

\* C31 witness: the next poll armed after a poll that succeeded, at the
\* minimum because the server had suggested less
C31_Witness ==
    /\ nextPageToken = 1
    /\ pollTimers # <<>>
    /\ LastPollTimer(pollTimers).after = "success"
    /\ LastPollTimer(pollTimers).delay = MIN_POLL_INTERVAL

----------------------------------------------------------------------------
(* The orchestrator monitoring for a stream across the hours of the day *)

\* hours the clock advances in a run
MaxMonitorTicks == 2

\* the quota history after k probes and the lookup that followed the last
AwaitingHistory(k) ==
    SliceLast(
      [i \in 1..(k + 1) |->
         [timestamp |-> LoadedRequestTime(k + 1, i),
          operation |-> IF i <= k THEN "SEARCH" ELSE "VIDEO_LIST",
          cost |-> IF i <= k THEN Cost("SEARCH") ELSE Cost("VIDEO_LIST"),
          success |-> TRUE]],
      QUOTA_HISTORY_CAP)

\* the bot monitoring after k probes today, the last of which found a live
\* video whose lookup returned no chat
BotAwaitingChat(k) ==
    /\ started = TRUE
    /\ isRunning = FALSE
    /\ isMonitoring = TRUE
    /\ videoId = 1
    /\ liveChatId = 0
    /\ nextPageToken = 0
    /\ consecutiveErrors = 0
    /\ intervals = [streamCheck |-> TRUE, contextCleanup |-> TRUE]
    /\ awaiting = [probe |-> "none", lookup |-> "none"]
    /\ pollTimers = <<>>
    /\ sendTimers = <<>>
    /\ sending = <<>>
    /\ restartTimers = 0
    /\ shutdown = [runs |-> 0, farewell |-> 0, stopping |-> 0, exitTimers |-> 0]
    /\ exited = FALSE
    /\ spent = [polls |-> 0, messages |-> 0, probes |-> 0, signals |-> 0]
    /\ dailyQuotaUsed = k * Cost("SEARCH") + Cost("VIDEO_LIST")
    /\ quotaHistory = AwaitingHistory(k)
    /\ currentGame = "minecraft"
    /\ gameState = "unknown"
    /\ chatMood = "neutral"
    /\ messageHistory = <<>>
    /\ recentEvents = <<[id |-> 1, timestamp |-> LoadedRequestTime(2, 1),
                         type |-> "streamStarted"]>>
    /\ inserted = [messages |-> 0, events |-> 1]

\* monitoring after a first probe that found no stream; or after a probe
\* that found a video without a chat, early or late in the quota day; or
\* attached and polling late in the quota day
MonitorInit ==
    /\ now = StartOfRun
    /\ ticks = 0
    /\ quotaResetTime = 2 * DayMs
    /\ admitted = "none"
    /\ pending = [o \in Ops |-> 0]
    /\ oauthTokens = TRUE
    /\ LimiterFresh
    /\ \/ /\ BotMonitoring
          /\ ContextFresh
          /\ dailyQuotaUsed = Cost("SEARCH")
          /\ quotaHistory = <<[timestamp |-> LoadedRequestTime(1, 1),
                               operation |-> "SEARCH",
                               cost |-> Cost("SEARCH"), success |-> TRUE]>>
       \/ BotAwaitingChat(1)
       \/ BotAwaitingChat(PreloadedSearches)
       \/ BotPolling(PreloadedPolls, 0)
    /\ lastCall = NoCall(StartOfRun)

\* the clock advances by an hour
MonitorTick ==
    /\ ~exited
    /\ ticks < MaxMonitorTicks
    /\ now' = now + HourMs
    /\ ticks' = ticks + 1
    /\ UNCHANGED <<contextVars, botVars, quotaVars, admitted, serviceVars,
                   limiterVars, lastCall>>

MonitorNext ==
    \/ MonitorTick
    \/ StreamCheckTimer
    \/ \E found \in {-1, 0, 1, 2} : \E game \in {"", "minecraft"} :
          ProbeDone(found, game)
    \/ \E chat \in {-1, 0, 1} : LookupDone(chat)
    \/ \E i \in 1..2 : PollTimer(i)
    \/ PollSucceeded(<<>>, 0)
    \/ \E terminal \in BOOLEAN : PollFailed(terminal)

SpecMonitor == MonitorInit /\ [][MonitorNext]_vars

\* the probe of the stream check interval returns before any request
ProbeSkipped ==
    \/ ~mayCall(State, "SEARCH")
    \/ ~isStreamingTime(HourOfDay, STREAM_START_HOUR, STREAM_END_HOUR)

\* C33: a probe of the stream check interval that finds the quota exhausted
\* or the hour outside the streaming hours issues no request, charges
\* nothing, counts no error and leaves the phase, the video, the chat and
\* the page token as they were; the interval stays armed
C33_SkippedProbeChangesNothing ==
    [][(StreamCheckTimer /\ ProbeSkipped)
         => /\ pending' = pending
            /\ awaiting' = awaiting
            /\ dailyQuotaUsed' \in {dailyQuotaUsed, 0}
            /\ Len(quotaHistory') <= Len(quotaHistory)
            /\ consecutiveErrors' = consecutiveErrors
            /\ Phase' = Phase
            /\ <<videoId, liveChatId, nextPageToken, isRunning>>'
                 = <<videoId, liveChatId, nextPageToken, isRunning>>
            /\ pollTimers' = pollTimers
            /\ intervals'.streamCheck]_vars

\* C33 witness: after midnight, outside the streaming hours, the only call
\* made was a probe that was skipped: its quota check began the new quota
\* day, and nothing was requested
C33_Witness ==
    /\ ~isStreamingTime(HourOfDay, STREAM_START_HOUR, STREAM_END_HOUR)
    /\ quotaResetTime > 2 * DayMs
    /\ dailyQuotaUsed = 0
    /\ Phase = "AWAITING_STREAM"
    /\ videoId = 1
    /\ spent = [polls |-> 0, messages |-> 0, probes |-> 0, signals |-> 0]
    /\ pending = [o \in Ops |-> 0]
    /\ intervals.streamCheck

\* C34: a lookup that returns no chat leaves the bot awaiting the stream,
\* with no chat, no poll requested and none scheduled, the stream check
\* interval armed; and an interval probe that finds the video already
\* known, the bot not attached, goes on to connectToChat: the lookup is
\* requested, or refused by the quota and handled as an error
C34_NoChatAwaitsAndRetries ==
    [][/\ (LookupDone(0) /\ ~isRunning)
            => /\ Phase' \in {"AWAITING_STREAM", "STOPPING"}
               /\ ~isRunning'
               /\ liveChatId' = 0
               /\ videoId' = videoId
               /\ pollTimers' = pollTimers
               /\ pending'["CHAT_LIST"] = pending["CHAT_LIST"]
               /\ consecutiveErrors' = consecutiveErrors
               /\ intervals' = intervals
       /\ \A game \in {"", "minecraft"} :
            (ProbeDone(videoId, game) /\ videoId # 0 /\ ~isRunning
               /\ awaiting.probe = "interval")
              => \/ /\ pending'["VIDEO_LIST"] = pending["VIDEO_LIST"] + 1
                    /\ awaiting'.lookup = "interval"
                 \/ /\ ~mayCall(State', "VIDEO_LIST")
                    /\ consecutiveErrors' = consecutiveErrors + 1]_vars

\* C34 witness: attached by the second lookup for the same video, the
\* first having returned no chat
C34_Witness ==
    /\ isRunning
    /\ liveChatId = 1
    /\ videoId = 1
    /\ Cardinality({i \in DOMAIN quotaHistory :
                      /\ quotaHistory[i].operation = "VIDEO_LIST"
                      /\ quotaHistory[i].success}) = 2

\* C35: the step in which a lookup returns a chat and the step in which a
\* poll succeeds leave consecutiveErrors at 0; every other step leaves the
\* counter, raises it by one or resets it to 0, so it never exceeds the
\* number of failures since the last attachment or successful poll
C35_ErrorsResetOnAttachAndOnSuccess ==
    [][/\ LookupDone(1) => consecutiveErrors' = 0
       /\ \A batch \in {<<>>} \cup {<<m>> : m \in Messages} :
            \A suggested \in SuggestedIntervals :
              PollSucceeded(batch, suggested) => consecutiveErrors' = 0
       /\ consecutiveErrors' \in {0, consecutiveErrors, consecutiveErrors + 1}]_vars

\* C35 witness: a poll succeeded after polls that had failed, and the
\* counter is back at 0
C35_Witness ==
    /\ consecutiveErrors = 0
    /\ isRunning
    /\ Len(quotaHistory) >= 2
    /\ quotaHistory[Len(quotaHistory)].operation = "CHAT_LIST"
    /\ quotaHistory[Len(quotaHistory)].success
    /\ quotaHistory[Len(quotaHistory) - 1].operation = "CHAT_LIST"
    /\ ~quotaHistory[Len(quotaHistory) - 1].success

\* setTimeout: an armed poll timer fires
SpecMonitorFair == SpecMonitor /\ WF_vars(\E i \in 1..2 : PollTimer(i))

\* attached to a chat and not shutting down
Attached == Phase \in {"POLLING", "BACKOFF"}

\* C36: while the bot is attached and not stopping, a poll request is in
\* flight or a poll timer is armed; a poll timer that fires while attached
\* runs pollMessages from its start, so the request is issued or the quota
\* refuses it and the pause is armed; and when timers fire fairly, an
\* attached bot with no request in flight gets one issued, unless the quota
\* refuses it or the bot leaves the chat
C36_PollingNeverStalls ==
    /\ [](Attached => pending["CHAT_LIST"] > 0 \/ pollTimers # <<>>)
    /\ [][\A i \in 1..2 :
            (PollTimer(i) /\ Attached)
              => IF mayCall(State, "CHAT_LIST")
                 THEN pending'["CHAT_LIST"] = pending["CHAT_LIST"] + 1
                 ELSE /\ pending' = pending
                      /\ Len(pollTimers') = Len(pollTimers)
                      /\ LastPollTimer(pollTimers')
                           = [delay |-> QUOTA_PAUSE, after |-> "quota"]]_vars
    /\ (Attached /\ pending["CHAT_LIST"] = 0 /\ spent.polls < MaxPolls)
         ~> \/ pending["CHAT_LIST"] > 0
            \/ ~Attached
            \/ ~mayCall(State, "CHAT_LIST")

\* C36 witness: the retry armed by a failed poll has fired and its request
\* is in flight
C36_Witness ==
    /\ Attached
    /\ consecutiveErrors > 0
    /\ pending["CHAT_LIST"] > 0
    /\ ~quotaHistory[Len(quotaHistory)].success
    /\ quotaHistory[Len(quotaHistory)].operation = "CHAT_LIST"

----------------------------------------------------------------------------
(* Further claims about the context *)

\* the entries of a list are in the order they were pushed
InPushOrder(list) ==
    \A i \in 1..(Len(list) - 1) : list[i].id < list[i + 1].id

\* C37 as stated: the sweep removes exactly the entries older than one hour,
\* so an entry that is one hour old to the millisecond stays; the order is
\* kept, no list grows and the caps of 100 and 50 hold throughout
C37_SweepRemovesOlderThanHour ==
    /\ [](Len(messageHistory) <= 100 /\ Len(recentEvents) <= 50)
    /\ [][CleanupContextTimer
            => /\ messageHistory'
                    = SelectSeq(messageHistory,
                                LAMBDA e : ~(now - e.timestamp > HourMs))
               /\ recentEvents'
                    = SelectSeq(recentEvents,
                                LAMBDA e : ~(now - e.timestamp > HourMs))
               /\ InPushOrder(messageHistory') /\ InPushOrder(recentEvents')
               /\ Len(messageHistory') <= Len(messageHistory)
               /\ Len(recentEvents') <= Len(recentEvents)]_vars

\* C37 amended: the sweep removes exactly the entries that are one hour old
\* or older and keeps those younger than one hour; the order is kept, no
\* list grows and the caps of 100 and 50 hold throughout
C37_SweepKeepsYoungerThanHour ==
    /\ [](Len(messageHistory) <= 100 /\ Len(recentEvents) <= 50)
    /\ [][CleanupContextTimer
            => /\ messageHistory'
                    = SelectSeq(messageHistory,
                                LAMBDA e : now - e.timestamp < HourMs)
               /\ recentEvents'
                    = SelectSeq(recentEvents,
                                LAMBDA e : now - e.timestamp < HourMs)
               /\ InPushOrder(messageHistory') /\ InPushOrder(recentEvents')
               /\ Len(messageHistory') <= Len(messageHistory)
               /\ Len(recentEvents') <= Len(recentEvents)]_vars

\* C37 witness: half an hour into the run the sweep has removed the ten
\* oldest of the 99 loaded messages, the tenth being one hour old to the
\* millisecond, and messages pushed since are behind the rest
C37_Witness ==
    /\ now = StartOfRun + 1800000
    /\ inserted.messages > PreloadedMessages
    /\ Len(messageHistory) = inserted.messages - 10
    /\ messageHistory[1].id = 11
    /\ LoadedMessageTime(PreloadedMessages, 10) = now - HourMs
    /\ messageHistory[Len(messageHistory)].id = inserted.messages

\* C39: in every reachable state the page token is set only while the chat
\* is set, and the chat only while the video is set
C39_IdentifiersConsistent ==
    /\ nextPageToken # 0 => liveChatId # 0
    /\ liveChatId # 0 => videoId # 0

\* C40: every reply whose delayed send has issued its request was sent to a
\* chat: none was sent with the chat id cleared by a cleanup that ran while
\* the send was waiting
C40_NoReplyToClearedChat ==
    \A i \in DOMAIN sending : sending[i].to # 0

============================================================================
